---- MODULE Spec2Model ----
(***************************************************************************)
(* Render-graph engine of bevy_render: graph construction (add_node,       *)
(* add_edge), the runner's topological sort, graph flattening and the      *)
(* single-threaded recording pass.                                         *)
(***************************************************************************)
EXTENDS Integers, Sequences, FiniteSets, TLC

(***************************************************************************)
(* Bounds of the model.                                                    *)
(***************************************************************************)
MaxNodes == 2
MaxEdges == 2
MaxDepth == 3

VARIABLES
    graphs,        \* RenderGraphs: graph id -> RenderGraph
    cached_data,   \* the runner's CachedData
    main_graph,    \* the label run() is given: the graph flattened first
    pc,            \* where render_system stands
    builder,       \* the FlattenedGraphBuilder, then the FlattenedGraph built from it
    frames,        \* the active visit_graph calls, innermost last
    rec_i,         \* run(): position of the recording loop in the flattened list
    recorded,      \* the record calls made on the command encoder, in order
    submitted,     \* the command buffers handed to queue.submit
    calls,         \* history: every visit_graph call, in call order
    entry_call,    \* history: for each flattened entry, the visit_graph call that pushed it
    prev_nodes,    \* history: the NodeLocation sequence of the previous frame
    run_result,    \* what run() returned in this frame
    failed,        \* history: the flattened entry whose record call failed, and its error
    graph_names,   \* RenderGraphs.graph_names: graph name -> graph id
    queue_graphs,  \* QueueGraphs.commands: the requests queued so far
    queue_result,  \* history: the last queue call, the list it found and what it returned
    schema,        \* the SlotRequirements a validation is made against
    supplied,      \* the SlotValues that are validated
    validation,    \* what get_slot_value_error returned for them
    inserted,      \* history: for each slot name, the type and value of the latest with
    got,           \* history: the last call on the slot values and what it returned
    req_call,      \* history: the last call on the slot requirements and what it returned
    edges,         \* history: the (before, after) pairs of the add_edge calls that returned Ok
    result,        \* history: the last call and what it returned
    fresh          \* history: cached_data was rebuilt after the last graph mutation

vars == <<graphs, cached_data, main_graph, pc, builder, frames, rec_i, recorded,
          submitted, calls, entry_call, prev_nodes, run_result, failed, graph_names, queue_graphs,
          queue_result, schema, supplied, validation, inserted, got, req_call, edges,
          result, fresh>>

build_vars == <<edges, result, fresh>>

queue_vars == <<graph_names, queue_graphs, queue_result>>

slot_vars == <<schema, supplied, validation, inserted, got, req_call>>

run_vars == <<main_graph, pc, builder, frames, rec_i, recorded, submitted, calls,
              entry_call, prev_nodes, run_result, failed>>

(***************************************************************************)
(* Generic helpers.                                                        *)
(***************************************************************************)
Range(s) == {s[i] : i \in 1..Len(s)}

Contains(s, x) == \E i \in 1..Len(s) : s[i] = x

IndexOf(s, x) == CHOOSE i \in 1..Len(s) : s[i] = x

Perms(S) == {s \in [1..Cardinality(S) -> S] : \A x \in S : \E i \in 1..Cardinality(S) : s[i] = x}

Before(s, x, y) == \E i, j \in 1..Len(s) : i < j /\ s[i] = x /\ s[j] = y

(***************************************************************************)
(* Labels and identifiers.  NodeId::new() draws a fresh random id; the     *)
(* model numbers the nodes of a graph in creation order.  A NodeLabel is   *)
(* Id(id) or Name(name); an Id label may carry any id, also one that no    *)
(* add_node call of this graph returned.                                   *)
(***************************************************************************)
Names == {"a"}

UnknownNames == {"z"}

ForeignIds == {0}

IdLabel(id) == <<"Id", id>>

NameLabel(name) == <<"Name", name>>

NoNames == [n \in {} |-> 0]

(***************************************************************************)
(* slot.rs.  A TypeId is modelled by the name of its type.                 *)
(* SlotRequirements: values maps a slot name to the type it must carry,    *)
(* type_names is the set of types that have a name on record, defaults is  *)
(* the set of names that have a default value.                             *)
(* SlotValues: maps a slot name to a SlotValueDescriptor.                  *)
(***************************************************************************)
NoSlots == [n \in {} |-> 0]

SlotRequirements_default == [values |-> NoSlots, type_names |-> {}, defaults |-> {}]

SlotRequirements_with(req, slot_name, type) ==
    [req EXCEPT !.type_names = @ \cup {type},
                !.values = [n \in DOMAIN req.values \cup {slot_name} |->
                              IF n = slot_name THEN type ELSE req.values[n]]]

\* SlotRequirements::set_default: refused with SlotTypeError when the name is
\* declared with another type, the error's expected_type being
\* type_names[declared type], a panic when that type has no name on record;
\* otherwise the name is declared with the value's type and gets the default
\* (no type name is put on record)
set_default(req, slot_name, type) ==
    IF slot_name \in DOMAIN req.values /\ req.values[slot_name] # type
    THEN [ok |-> FALSE,
          ret |-> IF req.values[slot_name] \in req.type_names
                  THEN "SlotTypeError" ELSE "panic",
          req |-> req]
    ELSE [ok |-> TRUE, ret |-> "Ok",
          req |-> [req EXCEPT !.values = [n \in DOMAIN req.values \cup {slot_name} |->
                                            IF n = slot_name THEN type ELSE req.values[n]],
                              !.defaults = @ \cup {slot_name}]]

\* the record of a call on a SlotRequirements: the receiver before the call,
\* the other set, the slot name and type named by the call or by its error
NoReqCall ==
    [op |-> "none", before |-> SlotRequirements_default,
     other |-> SlotRequirements_default, ret |-> "Ok", name |-> "",
     actual |-> "", provided |-> ""]

SlotValues_default == NoSlots

\* an insertion that leaves a value already stored under the name in place
SlotValues_with_keeps_first(values, slot_name, type, value) ==
    IF slot_name \in DOMAIN values THEN values
    ELSE [n \in DOMAIN values \cup {slot_name} |->
            IF n = slot_name THEN [type_id |-> type, item |-> value] ELSE values[n]]

\* SlotValues::with::<T>(slot_name, value): the descriptor stored under the
\* name holds the value with T's type id and type name
SlotValues_with(values, slot_name, type, value) ==
    [n \in DOMAIN values \cup {slot_name} |->
       IF n = slot_name THEN [type_id |-> type, item |-> value] ELSE values[n]]

\* a lookup that hands out whatever is stored under the name
SlotValues_get_unchecked(values, slot_name, type) ==
    IF slot_name \notin DOMAIN values
    THEN [ret |-> "SlotNameError", value |-> 0, expected_type |-> "", actual_type |-> ""]
    ELSE [ret |-> "Ok", value |-> values[slot_name].item,
          expected_type |-> "", actual_type |-> ""]

\* SlotValues::get::<T>(slot_name): SlotNameError when nothing is stored under
\* the name, SlotTypeError { expected_type: T, actual_type: the stored type
\* name } when the stored item does not downcast to T, else the item
SlotValues_get(values, slot_name, type) ==
    IF slot_name \notin DOMAIN values
    THEN [ret |-> "SlotNameError", value |-> 0, expected_type |-> "", actual_type |-> ""]
    ELSE IF values[slot_name].type_id # type
    THEN [ret |-> "SlotTypeError", value |-> 0,
          expected_type |-> type, actual_type |-> values[slot_name].type_id]
    ELSE [ret |-> "Ok", value |-> values[slot_name].item,
          expected_type |-> "", actual_type |-> ""]

\* SlotValueError: the variants that carry a slot name only
SlotValueError(variant, slot_name) ==
    [error |-> variant, name |-> slot_name, actual |-> "", provided |-> ""]

\* SlotValueError::SlotProvidedTypeError { name, actual, provided }: actual is
\* the name of the type the requirements declare, provided the name of the
\* type of the value that was handed in
SlotProvidedTypeError(slot_name, expected_id, provided_id) ==
    [error |-> "SlotProvidedTypeError", name |-> slot_name,
     actual |-> expected_id, provided |-> provided_id]

\* a validation that looks at the provided values only
get_slot_value_error_provided_only(req, provided_values) ==
    {SlotProvidedTypeError(n, req.values[n], provided_values[n].type_id) :
        n \in {m \in DOMAIN provided_values :
                 m \in DOMAIN req.values /\ req.values[m] # provided_values[m].type_id}}
    \cup
    {SlotValueError("SlotDoesntExist", n) :
        n \in DOMAIN provided_values \ DOMAIN req.values}

\* a validation that asks for a value also where the requirements hold a default
get_slot_value_error_ignores_defaults(req, provided_values) ==
    LET bad == get_slot_value_error_provided_only(req, provided_values)
    IN IF bad # {} THEN bad
       ELSE {SlotValueError("SlotNotProvided", n) :
               n \in DOMAIN req.values \ DOMAIN provided_values}

(***************************************************************************)
(* SlotRequirements::get_slot_value_error.  The provided values are walked *)
(* in hash order and the first bad one is returned; with none bad, the     *)
(* names not provided are walked in hash order and the first without a     *)
(* default is returned.  A type mismatch is reported with the expected     *)
(* type's name, type_names[expected_id], which panics when that type has   *)
(* no name on record.  The operator yields every outcome the call can      *)
(* have; the empty set stands for None.                                    *)
(***************************************************************************)
get_slot_value_error(req, provided_values) ==
    LET bad == {IF req.values[n] \in req.type_names
                THEN SlotProvidedTypeError(n, req.values[n], provided_values[n].type_id)
                ELSE SlotValueError("panic", n) :
                  n \in {m \in DOMAIN provided_values :
                           /\ m \in DOMAIN req.values
                           /\ req.values[m] # provided_values[m].type_id}}
               \cup
               {SlotValueError("SlotDoesntExist", n) :
                  n \in DOMAIN provided_values \ DOMAIN req.values}
        not_seen == DOMAIN req.values \ DOMAIN provided_values
        missing == {SlotValueError("SlotNotProvided", n) :
                      n \in not_seen \ req.defaults}
    IN IF bad # {} THEN bad ELSE missing

(***************************************************************************)
(* Node values.  kind is the BoxedNode variant; requires is what           *)
(* slot_requirements() returns; calls is the sequence of queue requests a  *)
(* queueing node makes for the current application state; after_update is  *)
(* what slot_requirements() returns once the node's update has run.        *)
(***************************************************************************)
EmptyNode ==
    [kind |-> "Empty", requires |-> SlotRequirements_default, calls |-> <<>>,
     after_update |-> SlotRequirements_default]

RecordNode(req) ==
    [kind |-> "Record", requires |-> req, calls |-> <<>>, after_update |-> req]

QueueNode(req, reqs) ==
    [kind |-> "Queue", requires |-> req, calls |-> reqs, after_update |-> req]

\* a node whose update changes the requirements it declares
ChangingNode(req, after) ==
    [kind |-> "Record", requires |-> req, calls |-> <<>>, after_update |-> after]

slot_requirements(node) == node.requires

\* Node::update
node_update(node) == [node EXCEPT !.requires = node.after_update]

(***************************************************************************)
(* NodeState::new: a node without edges.                                   *)
(***************************************************************************)
NodeState_new(id, node) ==
    [id |-> id, name |-> "", node |-> node,
     required_slots |-> slot_requirements(node),
     dependencies |-> <<>>, dependants |-> <<>>]

add_dependency(node_state, id) ==
    [node_state EXCEPT !.dependencies = Append(@, id)]

add_dependant(node_state, id) ==
    [node_state EXCEPT !.dependants = Append(@, id)]

(***************************************************************************)
(* RenderGraph::new.  nodes and node_names are hash maps; iter_order is    *)
(* the order in which the nodes map currently iterates.                    *)
(***************************************************************************)
RenderGraph_new(id) ==
    [id |-> id, nodes |-> [n \in {} |-> 0], node_names |-> NoNames,
     slot_requirements |-> SlotRequirements_default, iter_order |-> <<>>]

NodeIdsOf(graph) == DOMAIN graph.nodes

(***************************************************************************)
(* RenderGraph::add_node: inserts the node under a fresh id and points the *)
(* name at it.  order is the iteration order of the nodes map after the    *)
(* insert, which the hasher decides.                                       *)
(***************************************************************************)
add_node(graph, name, node, id, order) ==
    LET node_state == [NodeState_new(id, node) EXCEPT !.name = name]
    IN [graph EXCEPT
          !.nodes = [n \in DOMAIN graph.nodes \cup {id} |->
                       IF n = id THEN node_state ELSE graph.nodes[n]],
          !.node_names = [m \in DOMAIN graph.node_names \cup {name} |->
                            IF m = name THEN id ELSE graph.node_names[m]],
          !.iter_order = order]

(***************************************************************************)
(* RenderGraph::get_node_id: an Id label resolves to itself, unchecked; a  *)
(* Name label resolves through node_names.                                 *)
(***************************************************************************)
get_node_id(graph, label) ==
    IF label[1] = "Id" THEN [ok |-> TRUE, id |-> label[2]]
    ELSE IF label[2] \in DOMAIN graph.node_names
         THEN [ok |-> TRUE, id |-> graph.node_names[label[2]]]
         ELSE [ok |-> FALSE, id |-> 0]

(***************************************************************************)
(* RenderGraph::has_edge.                                                  *)
(***************************************************************************)
has_edge(graph, before, after) ==
    IF after \notin DOMAIN graph.nodes THEN FALSE
    ELSE IF before \notin DOMAIN graph.nodes THEN FALSE
    ELSE \/ Contains(graph.nodes[after].dependencies, before)
         \/ Contains(graph.nodes[before].dependants, after)

(***************************************************************************)
(* RenderGraph::validate_edge: only the duplicate check; cycles are not    *)
(* looked for.                                                             *)
(***************************************************************************)
validate_edge(graph, before, after) ==
    IF has_edge(graph, before, after) THEN "EdgeAlreadyExists" ELSE "Ok"

(***************************************************************************)
(* RenderGraph::add_edge.  Both get_node_state_mut calls look up the       *)
(* after node: the dependency and the dependant are pushed onto it.        *)
(***************************************************************************)
add_edge(graph, before_node, after_node) ==
    LET b == get_node_id(graph, before_node)
        a == get_node_id(graph, after_node)
    IN IF ~b.ok \/ ~a.ok THEN [result |-> "InvalidNode", graph |-> graph]
       ELSE IF validate_edge(graph, b.id, a.id) # "Ok"
            THEN [result |-> "EdgeAlreadyExists", graph |-> graph]
       ELSE IF a.id \notin DOMAIN graph.nodes
            THEN [result |-> "InvalidNode", graph |-> graph]
       ELSE [result |-> "Ok",
             graph |-> [graph EXCEPT !.nodes[a.id] =
                          add_dependant(add_dependency(@, b.id), a.id)]]

(***************************************************************************)
(* RenderGraph::iter_nodes: the values of the nodes map, in the map's      *)
(* iteration order.                                                        *)
(***************************************************************************)
iter_nodes(graph) == graph.iter_order

(***************************************************************************)
(* RenderGraph::before: the ids the node was declared to run after.        *)
(***************************************************************************)
before(graph, id) == graph.nodes[id].dependencies

(***************************************************************************)
(* graph_runner.rs: visit and topologically_sort_graph, a depth-first      *)
(* post-order walk with a seen set.  acc = [seen, sorted_list].            *)
(***************************************************************************)
RECURSIVE visit(_, _, _), visit_each(_, _, _)

visit_preorder(graph, id, acc) ==
    IF id \in acc.seen THEN acc
    ELSE visit_each(graph, before(graph, id),
                    [seen |-> acc.seen \cup {id},
                     sorted_list |-> Append(acc.sorted_list, id)])

visit(graph, id, acc) ==
    IF id \in acc.seen THEN acc
    ELSE LET entered == [acc EXCEPT !.seen = @ \cup {id}]
             done == visit_each(graph, before(graph, id), entered)
         IN [done EXCEPT !.sorted_list = Append(@, id)]

visit_each(graph, ids, acc) ==
    IF ids = <<>> THEN acc
    ELSE visit_each(graph, Tail(ids), visit(graph, Head(ids), acc))

topologically_sort_graph(graph) ==
    visit_each(graph, iter_nodes(graph),
               [seen |-> {}, sorted_list |-> <<>>]).sorted_list

(***************************************************************************)
(* A dependency on an id that is no node of the graph: the sort cannot     *)
(* look the node up.                                                       *)
(***************************************************************************)
Dangling(graph) ==
    \E n \in DOMAIN graph.nodes :
        \E d \in Range(graph.nodes[n].dependencies) : d \notin DOMAIN graph.nodes

(***************************************************************************)
(* ParalellRenderGraphRunner::rebuild_cached_data.                         *)
(***************************************************************************)
rebuild_cached_data(all_graphs) ==
    [sorted_nodes |-> [g \in DOMAIN all_graphs |->
                         topologically_sort_graph(all_graphs[g])]]

CachedData_default == [sorted_nodes |-> [g \in {} |-> <<>>]]

(***************************************************************************)
(* RenderGraph::update and update_requirements: every node refreshes its   *)
(* cached requirements, then the graph's aggregate is rebuilt from the     *)
(* nodes in map order, a later insert replacing an earlier one of the same *)
(* name.                                                                   *)
(***************************************************************************)
RECURSIVE insert_all(_, _, _)
insert_all(graph, ids, req) ==
    IF ids = <<>> THEN req
    ELSE LET r == graph.nodes[Head(ids)].required_slots
         IN insert_all(graph, Tail(ids),
                [values |-> [n \in DOMAIN req.values \cup DOMAIN r.values |->
                               IF n \in DOMAIN r.values THEN r.values[n] ELSE req.values[n]],
                 type_names |-> req.type_names \cup r.type_names,
                 defaults |-> req.defaults \cup r.defaults])

update_requirements(graph) ==
    [graph EXCEPT !.slot_requirements =
        insert_all(graph, iter_nodes(graph), SlotRequirements_default)]

\* RenderGraph::update, the loop over the nodes: each node is updated and
\* the requirements it then declares are cached in its node state
update_nodes(graph) ==
    [graph EXCEPT !.nodes = [n \in DOMAIN graph.nodes |->
        [graph.nodes[n] EXCEPT
            !.node = node_update(@),
            !.required_slots = slot_requirements(node_update(graph.nodes[n].node))]]]

update_nodes_only(graph) == update_nodes(graph)

\* an update that caches each node's requirements before the node is updated
update_caches_first(graph) ==
    update_requirements(
        [graph EXCEPT !.nodes = [n \in DOMAIN graph.nodes |->
            [graph.nodes[n] EXCEPT
                !.node = node_update(@),
                !.required_slots = slot_requirements(graph.nodes[n].node)]]])

update(graph) == update_requirements(update_nodes(graph))

RenderGraphs_update(all_graphs) == [g \in DOMAIN all_graphs |-> update(all_graphs[g])]

(***************************************************************************)
(* Lookups the flattening and the runner use.                              *)
(***************************************************************************)
get_node(graph, node_id) == graph.nodes[node_id]

get_function(node_state) == node_state.node.kind

\* the label a graph and a node are reported under
get_label(graph) == graph.id

node_label(node_state) == NameLabel(node_state.name)

(***************************************************************************)
(* QueueContext: the request list one queueing-node invocation fills.      *)
(* queue resolves the label, validates the values against the target       *)
(* graph's requirements and only then appends the request.                 *)
(***************************************************************************)
QueueContext_new == [commands |-> <<>>]

QueueContext_queue(ctx, all_graphs, label, slot_values) ==
    IF label \notin DOMAIN all_graphs
    THEN [ok |-> FALSE, error |-> "LabelError", ctx |-> ctx]
    ELSE IF get_slot_value_error(all_graphs[label].slot_requirements, slot_values) # {}
    THEN [ok |-> FALSE, error |-> "SlotValueError", ctx |-> ctx]
    ELSE [ok |-> TRUE, error |-> "",
          ctx |-> [ctx EXCEPT !.commands = Append(@, [id |-> label, inputs |-> slot_values])]]

QueueContext_finish(ctx) == ctx.commands

(***************************************************************************)
(* QueueGraphs::drain: the requests in the order they were appended.       *)
(***************************************************************************)
Reverse(s) == [i \in 1..Len(s) |-> s[Len(s) + 1 - i]]

drain_reversed(commands) == Reverse(commands)

drain_one_per_graph(commands) ==
    LET keep == {i \in 1..Len(commands) :
                   \A j \in 1..Len(commands) : commands[j].id = commands[i].id => i <= j}
        RECURSIVE pick(_)
        pick(i) == IF i > Len(commands) THEN <<>>
                   ELSE IF i \in keep THEN <<commands[i]>> \o pick(i + 1) ELSE pick(i + 1)
    IN pick(1)

drain(commands) == commands

(***************************************************************************)
(* A queueing node's queue function: it makes its requests in order and    *)
(* returns the first error a request meets.                                *)
(***************************************************************************)
RECURSIVE queue_calls(_, _, _)
queue_calls(requests, ctx, all_graphs) ==
    IF requests = <<>> THEN [ok |-> TRUE, ctx |-> ctx]
    ELSE LET r == QueueContext_queue(ctx, all_graphs, Head(requests).id, Head(requests).inputs)
         IN IF r.ok THEN queue_calls(Tail(requests), r.ctx, all_graphs)
            ELSE [ok |-> FALSE, ctx |-> r.ctx]

node_queue(node_state, current, ctx, all_graphs) ==
    queue_calls(node_state.node.calls, ctx, all_graphs)

(***************************************************************************)
(* flatten_graph.rs: FlattenedGraphBuilder.  position holds indices into   *)
(* slot_values_set counted from 0, as the code does.                       *)
(***************************************************************************)
Last(s) == s[Len(s)]

Front(s) == SubSeq(s, 1, Len(s) - 1)

FlattenedGraphBuilder_stale ==
    [graph_stack |-> <<>>, nodes |-> builder.nodes, slot_values_set |-> <<>>,
     position |-> <<>>]

FlattenedGraphBuilder_new ==
    [graph_stack |-> <<>>, nodes |-> <<>>, slot_values_set |-> <<>>, position |-> <<>>]

current_slot_values(b) == b.slot_values_set[Last(b.position) + 1]

enter(b, graph, slot_values) ==
    [b EXCEPT !.graph_stack = Append(@, graph.id),
              !.position = Append(@, Len(b.slot_values_set)),
              !.slot_values_set = Append(@, slot_values)]

Entry(b, node_state) ==
    [location |-> [graph_id |-> Last(b.graph_stack), node_id |-> node_state.id],
     index |-> Last(b.position)]

visit_recording_front(b, node_state) ==
    [b EXCEPT !.nodes = <<Entry(b, node_state)>> \o @]

visit_recording(b, node_state) ==
    [b EXCEPT !.nodes = Append(@, Entry(b, node_state))]

visit_empty_skipped(b, node_state) == b

visit_empty(b, node_state) ==
    [b EXCEPT !.nodes = Append(@, Entry(b, node_state))]

exit_keeps_graph_stack(b) == [b EXCEPT !.position = Front(@)]

exit_keeps_position(b) == [b EXCEPT !.graph_stack = Front(@)]

exit(b) == [b EXCEPT !.graph_stack = Front(@), !.position = Front(@)]

(***************************************************************************)
(* graph_runner.rs, run(): the slot values a recording node is handed.     *)
(***************************************************************************)
record_inputs_of_root(slot_values_set, slot_value_index) == slot_values_set[1]

record_inputs(slot_values_set, slot_value_index) == slot_values_set[slot_value_index + 1]

(***************************************************************************)
(* Graph construction: one graph, built by add_node and add_edge, sorted   *)
(* by the runner between mutations.                                        *)
(***************************************************************************)
TheGraph == 1

NodeInputs == {EmptyNode}

NoFrame == [valid |-> FALSE, nodes |-> <<>>]

\* no FlattenedGraph has been built yet
NoFlattenedGraph ==
    [graph_stack |-> <<>>, nodes |-> <<>>, slot_values_set |-> <<>>, position |-> <<>>]

NoResult == [ret |-> "none", graph |-> 0, node |-> <<>>, node_error |-> ""]

NoFailure == [entry |-> 0, error |-> ""]

NoQueueCall == [op |-> "none", label |-> <<>>, inputs |-> NoSlots, before |-> <<>>,
                ret |-> "Ok"]

NoGet == [op |-> "none", slot_name |-> "", type |-> "", ret |-> "Ok", value |-> 0,
          expected_type |-> "", actual_type |-> ""]

NotValidated == [done |-> FALSE, error |-> "", name |-> "", actual |-> "", provided |-> ""]

NoCall == [op |-> "none", before |-> 0, after |-> 0, ret |-> "Ok"]

TotalEdges(graph) ==
    LET RECURSIVE Sum(_)
        Sum(S) == IF S = {} THEN 0
                  ELSE LET n == CHOOSE x \in S : TRUE
                       IN Len(graph.nodes[n].dependencies) + Sum(S \ {n})
    IN Sum(DOMAIN graph.nodes)

EdgeLabels(graph) ==
    {NameLabel(n) : n \in Names \cup UnknownNames} \cup {IdLabel(i) : i \in DOMAIN graph.nodes \cup ForeignIds}

GraphInit ==
    /\ graphs = [g \in {TheGraph} |-> RenderGraph_new(g)]
    /\ cached_data = CachedData_default
    /\ schema = SlotRequirements_default
    /\ supplied = SlotValues_default
    /\ validation = NotValidated
    /\ inserted = NoSlots
    /\ got = NoGet
    /\ req_call = NoReqCall
    /\ edges = {}
    /\ result = NoCall
    /\ fresh = FALSE
    /\ main_graph = TheGraph
    /\ pc = "build"
    /\ builder = NoFlattenedGraph
    /\ frames = <<>>
    /\ rec_i = 0
    /\ recorded = <<>>
    /\ submitted = <<>>
    /\ calls = <<>>
    /\ entry_call = <<>>
    /\ prev_nodes = NoFrame
    /\ run_result = NoResult
    /\ failed = NoFailure
    /\ graph_names = NoNames
    /\ queue_graphs = <<>>
    /\ queue_result = NoQueueCall

AddNode ==
    /\ Cardinality(NodeIdsOf(graphs[TheGraph])) < MaxNodes
    /\ \E name \in Names, node \in NodeInputs :
         LET id == Cardinality(NodeIdsOf(graphs[TheGraph])) + 1
         IN \E order \in Perms(NodeIdsOf(graphs[TheGraph]) \cup {id}) :
              /\ graphs' = [graphs EXCEPT ![TheGraph] = add_node(@, name, node, id, order)]
              /\ result' = [op |-> "add_node", before |-> 0, after |-> id, ret |-> "Ok"]
    /\ fresh' = FALSE
    /\ UNCHANGED <<cached_data, edges, run_vars, queue_vars, slot_vars>>

AddEdge ==
    /\ TotalEdges(graphs[TheGraph]) < MaxEdges
    /\ \E bl \in EdgeLabels(graphs[TheGraph]), al \in EdgeLabels(graphs[TheGraph]) :
         LET r == add_edge(graphs[TheGraph], bl, al)
             b == get_node_id(graphs[TheGraph], bl)
             a == get_node_id(graphs[TheGraph], al)
         IN /\ graphs' = [graphs EXCEPT ![TheGraph] = r.graph]
            /\ result' = [op |-> "add_edge", ret |-> r.result,
                          before |-> IF b.ok THEN b.id ELSE -1,
                          after |-> IF a.ok THEN a.id ELSE -1]
            /\ edges' = IF r.result = "Ok" THEN edges \cup {<<b.id, a.id>>} ELSE edges
            /\ fresh' = IF r.result = "Ok" THEN FALSE ELSE fresh
    /\ UNCHANGED <<cached_data, run_vars, queue_vars, slot_vars>>

Sort ==
    /\ ~fresh
    /\ ~Dangling(graphs[TheGraph])
    /\ cached_data' = rebuild_cached_data(graphs)
    /\ fresh' = TRUE
    /\ result' = [op |-> "sort", before |-> 0, after |-> 0, ret |-> "Ok"]
    /\ UNCHANGED <<graphs, edges, run_vars, queue_vars, slot_vars>>

SortPanics ==
    /\ ~fresh
    /\ Dangling(graphs[TheGraph])
    /\ result' = [op |-> "sort", before |-> 0, after |-> 0, ret |-> "panic"]
    /\ UNCHANGED <<graphs, cached_data, edges, fresh, run_vars, queue_vars, slot_vars>>

GraphNext == AddNode \/ AddEdge \/ Sort \/ SortPanics

GraphSpec == GraphInit /\ [][GraphNext]_vars

(***************************************************************************)
(* One frame after another on a fixed registry: render_system updates the  *)
(* graphs, run() rebuilds the cached orders, flattens the main graph and   *)
(* records the flattened list.  The registry is built with add_node; the   *)
(* application state decides what the queueing nodes request.              *)
(***************************************************************************)
MaxRequests == 2

GraphIds == {1, 2, 3}

Items == {7, 8}

X(v) == SlotValues_with(SlotValues_default, "x", "Entity", v)

RequiresX == SlotRequirements_with(SlotRequirements_default, "x", "Entity")

Request(g, v) == [id |-> g, inputs |-> X(v)]

SeqsUpTo(S, n) == UNION {[1..k -> S] : k \in 0..n}

MainRequests == {Request(2, 7), Request(2, 8), Request(3, 8)}

SubRequests == {Request(3, 7)}

MainNodes(plan, third, order) ==
    add_node(add_node(add_node(RenderGraph_new(1),
        "a", RecordNode(SlotRequirements_default), 11, <<11>>),
        "b", QueueNode(SlotRequirements_default, plan), 12, <<11, 12>>),
        "c", third, 13, order)

\* the main graph, with or without the edge that puts node 13 ahead of node 11
MainGraph(plan, third, order, edge) ==
    IF edge THEN add_edge(MainNodes(plan, third, order), IdLabel(13), IdLabel(11)).graph
    ELSE MainNodes(plan, third, order)

SubGraph(node) == add_node(RenderGraph_new(2), "a", node, 21, <<21>>)

LeafGraph == add_node(RenderGraph_new(3), "a", RecordNode(RequiresX), 31, <<31>>)

Locations(nodes) == [i \in 1..Len(nodes) |-> nodes[i].location]

\* the nodes the sub graph may hold: a recording node or a node that queues the leaf graph
SubNodes ==
    {RecordNode(RequiresX)} \cup
    {QueueNode(r, p) : r \in {SlotRequirements_default, RequiresX},
                       p \in SeqsUpTo(SubRequests, MaxRequests)}

\* a node of the sub graph that queues the sub graph itself
SelfQueueingNodes == {QueueNode(RequiresX, <<Request(2, 7)>>)}

RunInitOver(sub_nodes) ==
    /\ \E plan \in SeqsUpTo(MainRequests, MaxRequests),
          third \in {RecordNode(SlotRequirements_default), EmptyNode},
          order \in {<<11, 12, 13>>, <<13, 12, 11>>},
          edge \in BOOLEAN,
          sub \in sub_nodes :
         graphs = [g \in GraphIds |->
                     IF g = 1 THEN MainGraph(plan, third, order, edge)
                     ELSE IF g = 2 THEN SubGraph(sub) ELSE LeafGraph]
    /\ main_graph \in {1, 2}
    /\ cached_data = CachedData_default
    /\ pc = "idle"
    /\ builder = NoFlattenedGraph
    /\ frames = <<>>
    /\ rec_i = 0
    /\ recorded = <<>>
    /\ submitted = <<>>
    /\ calls = <<>>
    /\ entry_call = <<>>
    /\ prev_nodes = NoFrame
    /\ run_result = NoResult
    /\ failed = NoFailure
    /\ graph_names = NoNames
    /\ queue_graphs = <<>>
    /\ queue_result = NoQueueCall
    /\ schema = SlotRequirements_default
    /\ supplied = SlotValues_default
    /\ validation = NotValidated
    /\ inserted = NoSlots
    /\ got = NoGet
    /\ req_call = NoReqCall
    /\ edges = {}
    /\ result = NoCall
    /\ fresh = FALSE

RunInit == RunInitOver(SubNodes)

\* render_system: graphs.update(world), before run()
Update ==
    /\ pc \in {"idle", "done"}
    /\ graphs' = RenderGraphs_update(graphs)
    /\ prev_nodes' = IF pc = "done"
                     THEN [valid |-> TRUE, nodes |-> Locations(builder.nodes)]
                     ELSE prev_nodes
    /\ pc' = "updated"
    /\ rec_i' = 0
    /\ recorded' = <<>>
    /\ submitted' = <<>>
    /\ calls' = <<>>
    /\ entry_call' = <<>>
    /\ run_result' = NoResult
    /\ failed' = NoFailure
    /\ UNCHANGED <<cached_data, main_graph, builder, frames, build_vars, queue_vars, slot_vars>>

\* a run() whose sort takes the edges out of the graphs as it consumes them
RunBegin_consumes_edges ==
    /\ pc = "updated"
    /\ cached_data' = rebuild_cached_data(graphs)
    /\ graphs' = [g \in DOMAIN graphs |->
                    [graphs[g] EXCEPT !.nodes = [n \in DOMAIN graphs[g].nodes |->
                        [graphs[g].nodes[n] EXCEPT !.dependencies = <<>>]]]]
    /\ builder' = enter(FlattenedGraphBuilder_new, graphs[main_graph], SlotValues_default)
    /\ frames' = <<[graph |-> main_graph, i |-> 1, queue_node |-> 0, pending |-> <<>>,
                    call |-> 1]>>
    /\ calls' = <<[graph |-> main_graph, args |-> SlotValues_default, parent |-> 0, by |-> 0]>>
    /\ pc' = "flatten"
    /\ UNCHANGED <<main_graph, rec_i, recorded, submitted, entry_call, prev_nodes,
                   build_vars, run_result, failed, queue_vars, slot_vars>>

\* run(): rebuild_cached_data, then FlattenedGraph::from enters the main graph
RunBegin ==
    /\ pc = "updated"
    /\ cached_data' = rebuild_cached_data(graphs)
    /\ builder' = enter(FlattenedGraphBuilder_new, graphs[main_graph], SlotValues_default)
    /\ frames' = <<[graph |-> main_graph, i |-> 1, queue_node |-> 0, pending |-> <<>>,
                    call |-> 1]>>
    /\ calls' = <<[graph |-> main_graph, args |-> SlotValues_default, parent |-> 0, by |-> 0]>>
    /\ pc' = "flatten"
    /\ UNCHANGED <<graphs, main_graph, rec_i, recorded, submitted, entry_call, prev_nodes,
                   build_vars,
                   run_result, failed, queue_vars, slot_vars>>

Top == Last(frames)

TopGraph == graphs[Top.graph]

TopSorted == cached_data.sorted_nodes[Top.graph]

TopNode == get_node(TopGraph, TopSorted[Top.i])

AtNode(kind) ==
    /\ pc = "flatten"
    /\ Top.queue_node = 0
    /\ Top.i <= Len(TopSorted)
    /\ get_function(TopNode) = kind

Advance == [frames EXCEPT ![Len(frames)].i = @ + 1, ![Len(frames)].queue_node = 0]

\* visit_graph, BoxedNode::Record arm
VisitRecording ==
    /\ AtNode("Record")
    /\ builder' = visit_recording(builder, TopNode)
    /\ entry_call' = Append(entry_call, Top.call)
    /\ frames' = Advance
    /\ UNCHANGED <<graphs, cached_data, main_graph, pc, rec_i, recorded, submitted, calls,
                   prev_nodes, build_vars,
                   run_result, failed, queue_vars, slot_vars>>

\* visit_graph, BoxedNode::Empty arm
VisitEmpty ==
    /\ AtNode("Empty")
    /\ builder' = visit_empty(builder, TopNode)
    /\ entry_call' = Append(entry_call, Top.call)
    /\ frames' = Advance
    /\ UNCHANGED <<graphs, cached_data, main_graph, pc, rec_i, recorded, submitted, calls,
                   prev_nodes, build_vars,
                   run_result, failed, queue_vars, slot_vars>>

\* a flattening that takes a failed queue call for one that queued nothing
VisitQueue_goes_on ==
    /\ AtNode("Queue")
    /\ LET r == node_queue(TopNode, current_slot_values(builder), QueueContext_new, graphs)
       IN frames' = [frames EXCEPT
                       ![Len(frames)].queue_node = TopNode.id,
                       ![Len(frames)].pending =
                            IF r.ok THEN drain(QueueContext_finish(r.ctx)) ELSE <<>>]
    /\ UNCHANGED <<graphs, cached_data, main_graph, pc, builder, rec_i, recorded, submitted,
                   calls, entry_call, prev_nodes, build_vars,
                   run_result, failed, queue_vars, slot_vars>>

\* visit_graph, BoxedNode::Queue arm: the node's queue call on a new QueueContext;
\* its error is returned up to FlattenedGraph::from, which unwraps it
VisitQueue ==
    /\ AtNode("Queue")
    /\ LET r == node_queue(TopNode, current_slot_values(builder), QueueContext_new, graphs)
       IN IF r.ok
          THEN /\ frames' = [frames EXCEPT
                               ![Len(frames)].queue_node = TopNode.id,
                               ![Len(frames)].pending = drain(QueueContext_finish(r.ctx))]
               /\ pc' = pc
          ELSE /\ frames' = frames
               /\ pc' = "panicked"
    /\ UNCHANGED <<graphs, cached_data, main_graph, builder, rec_i, recorded, submitted,
                   calls, entry_call, prev_nodes, build_vars,
                   run_result, failed, queue_vars, slot_vars>>

\* a flattening that visits the graph it is in for every request
EnterQueued_same_graph ==
    /\ pc = "flatten"
    /\ Top.queue_node # 0
    /\ Top.pending # <<>>
    /\ Len(frames) < MaxDepth
    /\ LET request == Head(Top.pending)
       IN /\ builder' = enter(builder, TopGraph, request.inputs)
          /\ frames' = Append([frames EXCEPT ![Len(frames)].pending = Tail(@)],
                              [graph |-> Top.graph, i |-> 1, queue_node |-> 0,
                               pending |-> <<>>, call |-> Len(calls) + 1])
          /\ calls' = Append(calls, [graph |-> Top.graph, args |-> request.inputs,
                                     parent |-> Top.call, by |-> Top.queue_node])
    /\ UNCHANGED <<graphs, cached_data, main_graph, pc, rec_i, recorded, submitted,
                   entry_call, prev_nodes, build_vars,
                   run_result, failed, queue_vars, slot_vars>>

\* visit_graph, the loop over the drained requests: the recursive visit_graph
\* call, which the model follows down to MaxDepth nested calls
EnterQueued ==
    /\ pc = "flatten"
    /\ Top.queue_node # 0
    /\ Top.pending # <<>>
    /\ Len(frames) < MaxDepth
    /\ LET request == Head(Top.pending)
       IN /\ builder' = enter(builder, graphs[request.id], request.inputs)
          /\ frames' = Append([frames EXCEPT ![Len(frames)].pending = Tail(@)],
                              [graph |-> request.id, i |-> 1, queue_node |-> 0,
                               pending |-> <<>>, call |-> Len(calls) + 1])
          /\ calls' = Append(calls, [graph |-> request.id, args |-> request.inputs,
                                     parent |-> Top.call, by |-> Top.queue_node])
    /\ UNCHANGED <<graphs, cached_data, main_graph, pc, rec_i, recorded, submitted,
                   entry_call, prev_nodes, build_vars,
                   run_result, failed, queue_vars, slot_vars>>

\* visit_graph, BoxedNode::Queue arm after the loop: visit_empty(node)
QueueDone ==
    /\ pc = "flatten"
    /\ Top.queue_node # 0
    /\ Top.pending = <<>>
    /\ builder' = visit_empty(builder, get_node(TopGraph, Top.queue_node))
    /\ entry_call' = Append(entry_call, Top.call)
    /\ frames' = Advance
    /\ UNCHANGED <<graphs, cached_data, main_graph, pc, rec_i, recorded, submitted, calls,
                   prev_nodes, build_vars,
                   run_result, failed, queue_vars, slot_vars>>

\* visit_graph returns: exit(); the outermost return ends FlattenedGraph::from
ExitGraph ==
    /\ pc = "flatten"
    /\ Top.queue_node = 0
    /\ Top.i > Len(TopSorted)
    /\ builder' = exit(builder)
    /\ frames' = Front(frames)
    /\ pc' = IF Len(frames) = 1 THEN "record" ELSE pc
    /\ rec_i' = IF Len(frames) = 1 THEN 1 ELSE rec_i
    /\ UNCHANGED <<graphs, cached_data, main_graph, recorded, submitted, calls, entry_call,
                   prev_nodes, build_vars,
                   run_result, failed, queue_vars, slot_vars>>

RecEntry == builder.nodes[rec_i]

RecNode == get_node(graphs[RecEntry.location.graph_id], RecEntry.location.node_id)

\* run(), the recording loop: a Record node records with the slot values of its entry
RecordEntry ==
    /\ pc = "record"
    /\ rec_i <= Len(builder.nodes)
    /\ get_function(RecNode) = "Record"
    /\ recorded' = Append(recorded,
                          [graph_id |-> RecEntry.location.graph_id,
                           node_id |-> RecEntry.location.node_id,
                           inputs |-> record_inputs(builder.slot_values_set, RecEntry.index)])
    /\ rec_i' = rec_i + 1
    /\ UNCHANGED <<graphs, cached_data, main_graph, pc, builder, frames, submitted, calls,
                   entry_call, prev_nodes, build_vars,
                   run_result, failed, queue_vars, slot_vars>>

\* the ways a record call can fail
NodeRunErrors == {"RecordingError", "SlotError"}

\* run(), map_err of a failed record: the error names the entry's graph and node
NodeRunError_of_root(graph, node_state, node_error) ==
    [ret |-> "Err", graph |-> get_label(graphs[main_graph]), node |-> node_label(node_state),
     node_error |-> node_error]

NodeRunError(graph, node_state, node_error) ==
    [ret |-> "Err", graph |-> get_label(graph), node |-> node_label(node_state),
     node_error |-> node_error]

\* a failed record whose error is noted while the loop goes on
RecordFails_goes_on ==
    /\ pc = "record"
    /\ rec_i <= Len(builder.nodes)
    /\ get_function(RecNode) = "Record"
    /\ \E e \in NodeRunErrors :
         /\ run_result' = NodeRunError(graphs[RecEntry.location.graph_id], RecNode, e)
         /\ failed' = [entry |-> rec_i, error |-> e]
    /\ rec_i' = rec_i + 1
    /\ UNCHANGED <<graphs, cached_data, main_graph, pc, builder, frames, recorded, submitted,
                   calls, entry_call, prev_nodes, build_vars, queue_vars, slot_vars>>

\* run(), the recording loop: record returns an error and run returns it at once
RecordFails ==
    /\ pc = "record"
    /\ rec_i <= Len(builder.nodes)
    /\ get_function(RecNode) = "Record"
    /\ \E e \in NodeRunErrors :
         /\ run_result' = NodeRunError(graphs[RecEntry.location.graph_id], RecNode, e)
         /\ failed' = [entry |-> rec_i, error |-> e]
    /\ pc' = "failed"
    /\ UNCHANGED <<graphs, cached_data, main_graph, builder, frames, rec_i, recorded,
                   submitted, calls, entry_call, prev_nodes, build_vars, queue_vars, slot_vars>>

\* run(), the recording loop: Empty and Queue entries are passed over
SkipEntry ==
    /\ pc = "record"
    /\ rec_i <= Len(builder.nodes)
    /\ get_function(RecNode) \in {"Empty", "Queue"}
    /\ rec_i' = rec_i + 1
    /\ UNCHANGED <<graphs, cached_data, main_graph, pc, builder, frames, recorded, submitted,
                   calls, entry_call, prev_nodes, build_vars,
                   run_result, failed, queue_vars, slot_vars>>

\* a submit that does not wait for the end of the recording loop
Submit_early ==
    /\ pc = "record"
    /\ submitted' = Append(submitted, recorded)
    /\ run_result' = [NoResult EXCEPT !.ret = "Ok"]
    /\ pc' = "done"
    /\ UNCHANGED <<graphs, cached_data, main_graph, builder, frames, rec_i, recorded, calls,
                   entry_call, prev_nodes, failed, build_vars, queue_vars, slot_vars>>

\* run(): command_encoder.finish() and queue.submit
Submit ==
    /\ pc = "record"
    /\ rec_i > Len(builder.nodes)
    /\ submitted' = Append(submitted, recorded)
    /\ run_result' = [NoResult EXCEPT !.ret = "Ok"]
    /\ pc' = "done"
    /\ UNCHANGED <<graphs, cached_data, main_graph, builder, frames, rec_i, recorded, calls,
                   entry_call, prev_nodes, failed, build_vars, queue_vars, slot_vars>>

RunNext ==
    \/ Update \/ RunBegin
    \/ VisitRecording \/ VisitEmpty \/ VisitQueue \/ EnterQueued \/ QueueDone \/ ExitGraph
    \/ RecordEntry \/ RecordFails \/ SkipEntry \/ Submit

RunSpec == RunInit /\ [][RunNext]_vars

\* the frames over registries in which the sub graph may also queue itself;
\* run() is sequential code: a step that can be taken is taken
FlattenInit == RunInitOver(SubNodes \cup SelfQueueingNodes)

FairFlattenSpec == FlattenInit /\ [][RunNext]_vars /\ WF_vars(RunNext)

(***************************************************************************)
(* context.rs: QueueGraphs::queue against a registry of graphs.            *)
(* RenderGraphs::get_graph_id takes an Id label as it is and looks a Name  *)
(* label up in graph_names; get_graph then looks the id up in the graphs.  *)
(***************************************************************************)
get_graph_id(names, label) ==
    IF label[1] = "Id" THEN [some |-> TRUE, id |-> label[2]]
    ELSE IF label[2] \in DOMAIN names THEN [some |-> TRUE, id |-> names[label[2]]]
    ELSE [some |-> FALSE, id |-> 0]

get_graph(all_graphs, names, label) ==
    LET r == get_graph_id(names, label)
    IN IF r.some /\ r.id \in DOMAIN all_graphs THEN r ELSE [some |-> FALSE, id |-> 0]

\* the provided inputs that name no requirement of the graph
UnusedInputs(requirements, inputs) == DOMAIN inputs \ DOMAIN requirements

\* the provided inputs whose type is not the one the requirement of that name asks for
MismatchedInputs(requirements, inputs) ==
    {n \in DOMAIN inputs \cap DOMAIN requirements : requirements[n] # inputs[n].type_id}

\* a queue that lets a request for a missing graph pass without queueing it
QueueGraphs_queue_skips_missing(cmds, all_graphs, names, label, inputs) ==
    LET graph == get_graph(all_graphs, names, label)
    IN IF ~graph.some THEN {[ret |-> "Ok", slot_name |-> "", commands |-> cmds]}
       ELSE {[ret |-> "Ok", slot_name |-> "",
              commands |-> Append(cmds, [id |-> graph.id, inputs |-> inputs])]}

\* a queue that appends the request before it looks at the inputs
QueueGraphs_queue_push_first(cmds, all_graphs, names, label, inputs) ==
    LET graph == get_graph(all_graphs, names, label)
    IN IF ~graph.some THEN {[ret |-> "MissingGraph", slot_name |-> "", commands |-> cmds]}
       ELSE LET requirements == all_graphs[graph.id].slot_requirements.values
                pushed == Append(cmds, [id |-> graph.id, inputs |-> inputs])
                errors ==
                    {[ret |-> "UnusedInput", slot_name |-> n, commands |-> pushed] :
                        n \in UnusedInputs(requirements, inputs)}
                    \cup
                    {[ret |-> "MismatchedSlotType", slot_name |-> n, commands |-> pushed] :
                        n \in MismatchedInputs(requirements, inputs)}
            IN IF errors # {} THEN errors
               ELSE {[ret |-> "Ok", slot_name |-> "", commands |-> pushed]}

(***************************************************************************)
(* QueueGraphs::queue.  The provided inputs are walked in hash order and   *)
(* the first one that names no requirement, or has another type than the   *)
(* requirement, ends the call with its error; otherwise the request is     *)
(* pushed.  The operator yields every outcome the call can have.           *)
(***************************************************************************)
QueueGraphs_queue(cmds, all_graphs, names, label, inputs) ==
    LET graph == get_graph(all_graphs, names, label)
    IN IF ~graph.some THEN {[ret |-> "MissingGraph", slot_name |-> "", commands |-> cmds]}
       ELSE LET requirements == all_graphs[graph.id].slot_requirements.values
                errors ==
                    {[ret |-> "UnusedInput", slot_name |-> n, commands |-> cmds] :
                        n \in UnusedInputs(requirements, inputs)}
                    \cup
                    {[ret |-> "MismatchedSlotType", slot_name |-> n, commands |-> cmds] :
                        n \in MismatchedInputs(requirements, inputs)}
            IN IF errors # {} THEN errors
               ELSE {[ret |-> "Ok", slot_name |-> "",
                      commands |-> Append(cmds, [id |-> graph.id, inputs |-> inputs])]}

SlotTypes == {"Entity", "Buffer"}

InputNames == {"x", "u"}

\* the slot values a caller may pass: any of the names, each with a value of any type
QueueInputs ==
    UNION {[D -> {[type_id |-> t, item |-> 7] : t \in SlotTypes}] : D \in SUBSET InputNames}

QueueLabels == {IdLabel(2), IdLabel(3), IdLabel(9), NameLabel("A"), NameLabel("Z")}

RequirementChoices ==
    {SlotRequirements_default, RequiresX, [RequiresX EXCEPT !.defaults = {"x"}]}

\* a registered graph of one recording node with the given requirements, updated
QueueTarget(id, req) ==
    update(add_node(RenderGraph_new(id), "a", RecordNode(req), 10 * id + 1, <<10 * id + 1>>))

QueueInit ==
    /\ \E r2 \in RequirementChoices, r3 \in RequirementChoices :
         graphs = [g \in {2, 3} |-> IF g = 2 THEN QueueTarget(2, r2) ELSE QueueTarget(3, r3)]
    /\ graph_names = [n \in {"A", "B"} |-> IF n = "A" THEN 3 ELSE 2]
    /\ queue_graphs = <<>>
    /\ queue_result = NoQueueCall
    /\ cached_data = CachedData_default
    /\ main_graph = 2
    /\ pc = "queue"
    /\ builder = NoFlattenedGraph
    /\ frames = <<>>
    /\ rec_i = 0
    /\ recorded = <<>>
    /\ submitted = <<>>
    /\ calls = <<>>
    /\ entry_call = <<>>
    /\ prev_nodes = NoFrame
    /\ run_result = NoResult
    /\ failed = NoFailure
    /\ schema = SlotRequirements_default
    /\ supplied = SlotValues_default
    /\ validation = NotValidated
    /\ inserted = NoSlots
    /\ got = NoGet
    /\ req_call = NoReqCall
    /\ edges = {}
    /\ result = NoCall
    /\ fresh = FALSE

\* a node's queue_graphs makes one more queue call
Queue ==
    /\ Len(queue_graphs) < MaxRequests
    /\ \E label \in QueueLabels, inputs \in QueueInputs :
         \E r \in QueueGraphs_queue(queue_graphs, graphs, graph_names, label, inputs) :
            /\ queue_graphs' = r.commands
            /\ queue_result' = [op |-> "queue", label |-> label, inputs |-> inputs,
                                before |-> queue_graphs, ret |-> r.ret]
    /\ UNCHANGED <<graphs, cached_data, graph_names, run_vars, build_vars, slot_vars>>

\* the requests are handed over and the next invocation starts from an empty list
Drain ==
    /\ queue_graphs # <<>>
    /\ queue_graphs' = <<>>
    /\ queue_result' = [NoQueueCall EXCEPT !.op = "drain", !.before = drain(queue_graphs)]
    /\ UNCHANGED <<graphs, cached_data, graph_names, run_vars, build_vars, slot_vars>>

QueueNext == Queue \/ Drain

QueueSpec == QueueInit /\ [][QueueNext]_vars

(***************************************************************************)
(* slot.rs: get_slot_value_error applied to requirements built with        *)
(* with() and set_default() and to any values over a few names and types.  *)
(***************************************************************************)
SlotNames == {"x", "y"}

Declarations == {"absent", "with", "with_default", "default_only"}

Declare(req, slot_name, how, type) ==
    CASE how = "absent" -> req
      [] how = "with" -> SlotRequirements_with(req, slot_name, type)
      [] how = "with_default" ->
            set_default(SlotRequirements_with(req, slot_name, type), slot_name, type).req
      [] how = "default_only" -> set_default(req, slot_name, type).req

Schemas ==
    {Declare(Declare(SlotRequirements_default, "x", hx, tx), "y", hy, ty) :
        hx \in Declarations, hy \in Declarations, tx \in SlotTypes, ty \in SlotTypes}

SuppliedValues ==
    UNION {[D -> {[type_id |-> t, item |-> 7] : t \in SlotTypes}] :
             D \in SUBSET (SlotNames \cup {"u"})}

ValidateInit ==
    /\ schema \in Schemas
    /\ supplied \in SuppliedValues
    /\ validation = NotValidated
    /\ inserted = NoSlots
    /\ got = NoGet
    /\ req_call = NoReqCall
    /\ graphs = [g \in {} |-> 0]
    /\ graph_names = NoNames
    /\ queue_graphs = <<>>
    /\ queue_result = NoQueueCall
    /\ cached_data = CachedData_default
    /\ main_graph = 0
    /\ pc = "validate"
    /\ builder = NoFlattenedGraph
    /\ frames = <<>>
    /\ rec_i = 0
    /\ recorded = <<>>
    /\ submitted = <<>>
    /\ calls = <<>>
    /\ entry_call = <<>>
    /\ prev_nodes = NoFrame
    /\ run_result = NoResult
    /\ failed = NoFailure
    /\ edges = {}
    /\ result = NoCall
    /\ fresh = FALSE

\* schema.get_slot_value_error(&supplied) returns None
ValidatePasses ==
    /\ ~validation.done
    /\ get_slot_value_error(schema, supplied) = {}
    /\ validation' = [done |-> TRUE, error |-> "None", name |-> "",
                      actual |-> "", provided |-> ""]
    /\ UNCHANGED <<graphs, cached_data, run_vars, build_vars, queue_vars, schema, supplied, inserted,
                   got, req_call>>

\* schema.get_slot_value_error(&supplied) returns the first error it meets, or panics
ValidateFails ==
    /\ ~validation.done
    /\ \E e \in get_slot_value_error(schema, supplied) :
         validation' = [done |-> TRUE, error |-> e.error, name |-> e.name,
                        actual |-> e.actual, provided |-> e.provided]
    /\ UNCHANGED <<graphs, cached_data, run_vars, build_vars, queue_vars, schema, supplied, inserted,
                   got, req_call>>

ValidateNext == ValidatePasses \/ ValidateFails

ValidateSpec == ValidateInit /\ [][ValidateNext]_vars

(***************************************************************************)
(* slot.rs: a SlotValues that is built with with::<T>() and read with      *)
(* get::<T>().  A with call is made on the builder value, a get on a       *)
(* reference, in any order and any number of times.                        *)
(***************************************************************************)
ValuesInit ==
    /\ schema = SlotRequirements_default
    /\ supplied = SlotValues_default
    /\ validation = NotValidated
    /\ inserted = NoSlots
    /\ got = NoGet
    /\ req_call = NoReqCall
    /\ graphs = [g \in {} |-> 0]
    /\ graph_names = NoNames
    /\ queue_graphs = <<>>
    /\ queue_result = NoQueueCall
    /\ cached_data = CachedData_default
    /\ main_graph = 0
    /\ pc = "values"
    /\ builder = NoFlattenedGraph
    /\ frames = <<>>
    /\ rec_i = 0
    /\ recorded = <<>>
    /\ submitted = <<>>
    /\ calls = <<>>
    /\ entry_call = <<>>
    /\ prev_nodes = NoFrame
    /\ run_result = NoResult
    /\ failed = NoFailure
    /\ edges = {}
    /\ result = NoCall
    /\ fresh = FALSE

\* supplied = supplied.with::<T>(slot_name, value)
With ==
    /\ pc = "values"
    /\ \E slot_name \in SlotNames, type \in SlotTypes, value \in Items :
         /\ supplied' = SlotValues_with(supplied, slot_name, type, value)
         /\ inserted' = [n \in DOMAIN inserted \cup {slot_name} |->
                           IF n = slot_name THEN [type |-> type, value |-> value]
                           ELSE inserted[n]]
         /\ got' = [NoGet EXCEPT !.op = "with", !.slot_name = slot_name, !.type = type,
                                 !.value = value]
    /\ UNCHANGED <<graphs, cached_data, run_vars, build_vars, queue_vars, schema,
                   validation, req_call>>

\* supplied.get::<T>(slot_name)
Get ==
    /\ pc = "values"
    /\ \E slot_name \in SlotNames \cup {"u"}, type \in SlotTypes :
         LET r == SlotValues_get(supplied, slot_name, type)
         IN got' = [op |-> "get", slot_name |-> slot_name, type |-> type,
                    ret |-> r.ret, value |-> r.value,
                    expected_type |-> r.expected_type, actual_type |-> r.actual_type]
    /\ UNCHANGED <<graphs, cached_data, run_vars, build_vars, queue_vars, schema,
                   supplied, validation, inserted, req_call>>

ValuesNext == With \/ Get

ValuesSpec == ValuesInit /\ [][ValuesNext]_vars

(***************************************************************************)
(* slot.rs: a SlotRequirements that is built with with::<T>(),             *)
(* set_default::<T>() and merge(), and compared with a graph's set by      *)
(* get_slot_requirement_error.  A HashMap is walked in hash order, so a    *)
(* call has one outcome per order in which the keys can come.              *)
(***************************************************************************)
SlotError(variant, req, slot_name) ==
    [ret |-> variant, req |-> req, name |-> slot_name]

\* the loop of merge from the i-th key of other.values on
RECURSIVE merge_from(_, _, _, _)
merge_from(req, other, order, i) ==
    IF i > Cardinality(DOMAIN other.values) THEN SlotError("Ok", req, "")
    ELSE LET key == order[i]
             new_type == other.values[key]
         IN IF key \in DOMAIN req.values /\ req.values[key] # new_type
            THEN IF req.values[key] \in req.type_names /\ new_type \in other.type_names
                 THEN SlotError("SlotConflict", req, key)
                 ELSE SlotError("panic", req, key)
            ELSE IF new_type \notin other.type_names
                 THEN SlotError("panic", req, key)
                 ELSE merge_from(SlotRequirements_with(req, key, new_type), other,
                                 order, i + 1)

\* SlotRequirements::merge(other): every key of other is taken over with its
\* type and type name, up to the first key that self declares with another
\* type, where SlotConflict is returned; type_names[..] panics on a type
\* without a name on record
merge(req, other) ==
    {merge_from(req, other, order, 1) : order \in Perms(DOMAIN other.values)}

SlotRequirementError(variant, slot_name, actual, provided) ==
    [ret |-> variant, name |-> slot_name, actual |-> actual, provided |-> provided]

\* SlotRequirements::get_slot_requirement_error(graph_requirements): the
\* error of the first of self's names, in hash order, that the graph's set
\* lacks or declares with another type; actual is looked up under self's
\* type id in the graph's type names and provided under the graph's type id
\* in self's type names.  The empty set stands for None.
get_slot_requirement_error(req, graph_requirements) ==
    {IF n \notin DOMAIN graph_requirements.values
     THEN SlotRequirementError("SlotRequirementDoesntExist", n, "", "")
     ELSE IF /\ req.values[n] \in graph_requirements.type_names
             /\ graph_requirements.values[n] \in req.type_names
     THEN SlotRequirementError("SlotRequirementTypeError", n, req.values[n],
                               graph_requirements.values[n])
     ELSE SlotRequirementError("panic", n, "", "") :
       n \in {m \in DOMAIN req.values :
                \/ m \notin DOMAIN graph_requirements.values
                \/ graph_requirements.values[m] # req.values[m]}}

RequirementsInit ==
    /\ schema = SlotRequirements_default
    /\ supplied = SlotValues_default
    /\ validation = NotValidated
    /\ inserted = NoSlots
    /\ got = NoGet
    /\ req_call = NoReqCall
    /\ graphs = [g \in {} |-> 0]
    /\ graph_names = NoNames
    /\ queue_graphs = <<>>
    /\ queue_result = NoQueueCall
    /\ cached_data = CachedData_default
    /\ main_graph = 0
    /\ pc = "requirements"
    /\ builder = NoFlattenedGraph
    /\ frames = <<>>
    /\ rec_i = 0
    /\ recorded = <<>>
    /\ submitted = <<>>
    /\ calls = <<>>
    /\ entry_call = <<>>
    /\ prev_nodes = NoFrame
    /\ run_result = NoResult
    /\ failed = NoFailure
    /\ edges = {}
    /\ result = NoCall
    /\ fresh = FALSE

req_frame == <<graphs, cached_data, main_graph, builder, frames, rec_i, recorded,
               submitted, calls, entry_call, prev_nodes, run_result, failed,
               build_vars, queue_vars, supplied, validation, inserted, got>>

\* schema = schema.with::<T>(slot_name)
RequireWith ==
    /\ pc = "requirements"
    /\ \E slot_name \in SlotNames, type \in SlotTypes :
         /\ schema' = SlotRequirements_with(schema, slot_name, type)
         /\ req_call' = [NoReqCall EXCEPT !.op = "with", !.before = schema,
                                          !.name = slot_name, !.provided = type]
    /\ UNCHANGED <<pc, req_frame>>

\* schema.set_default::<T>(&slot_name, value)
RequireDefault ==
    /\ pc = "requirements"
    /\ \E slot_name \in SlotNames, type \in SlotTypes :
         LET r == set_default(schema, slot_name, type)
         IN /\ schema' = r.req
            /\ req_call' = [NoReqCall EXCEPT !.op = "set_default", !.before = schema,
                                             !.ret = r.ret, !.name = slot_name,
                                             !.provided = type]
            /\ pc' = IF r.ret = "panic" THEN "panicked" ELSE pc
    /\ UNCHANGED req_frame

\* schema.merge(other)
RequireMerge ==
    /\ pc = "requirements"
    /\ \E other \in Schemas :
         \E r \in merge(schema, other) :
            /\ schema' = r.req
            /\ req_call' = [NoReqCall EXCEPT !.op = "merge", !.before = schema,
                                             !.other = other, !.ret = r.ret,
                                             !.name = r.name]
            /\ pc' = IF r.ret = "panic" THEN "panicked" ELSE pc
    /\ UNCHANGED req_frame

\* schema.get_slot_requirement_error(&graph_requirements) returns None
RequirementsMet ==
    /\ pc = "requirements"
    /\ \E graph_requirements \in Schemas :
         /\ get_slot_requirement_error(schema, graph_requirements) = {}
         /\ req_call' = [NoReqCall EXCEPT !.op = "get_slot_requirement_error",
                                          !.before = schema,
                                          !.other = graph_requirements, !.ret = "None"]
    /\ UNCHANGED <<pc, schema, req_frame>>

\* schema.get_slot_requirement_error(&graph_requirements) returns the first
\* error it meets, or panics
RequirementsNotMet ==
    /\ pc = "requirements"
    /\ \E graph_requirements \in Schemas :
         \E e \in get_slot_requirement_error(schema, graph_requirements) :
            /\ req_call' = [op |-> "get_slot_requirement_error", before |-> schema,
                            other |-> graph_requirements, ret |-> e.ret,
                            name |-> e.name, actual |-> e.actual,
                            provided |-> e.provided]
            /\ pc' = IF e.ret = "panic" THEN "panicked" ELSE pc
    /\ UNCHANGED <<schema, req_frame>>

RequirementsNext ==
    RequireWith \/ RequireDefault \/ RequireMerge \/ RequirementsMet \/ RequirementsNotMet

RequirementsSpec == RequirementsInit /\ [][RequirementsNext]_vars

(***************************************************************************)
(* graph.rs: one graph that receives nodes with slot requirements through  *)
(* add_node and is refreshed with update, in any order.                    *)
(***************************************************************************)
NodeNames == {"a", "b"}

NodeRequirements ==
    {SlotRequirements_default,
     RequiresX,
     SlotRequirements_with(SlotRequirements_with(SlotRequirements_default, "x", "Buffer"),
                           "y", "Entity")}

SlotNodes == {ChangingNode(req, after) : req \in NodeRequirements, after \in NodeRequirements}

NodeInit ==
    /\ graphs = [g \in {TheGraph} |-> RenderGraph_new(TheGraph)]
    /\ result = NoCall
    /\ pc = "nodes"
    /\ schema = SlotRequirements_default
    /\ supplied = SlotValues_default
    /\ validation = NotValidated
    /\ inserted = NoSlots
    /\ got = NoGet
    /\ req_call = NoReqCall
    /\ graph_names = NoNames
    /\ queue_graphs = <<>>
    /\ queue_result = NoQueueCall
    /\ cached_data = CachedData_default
    /\ main_graph = 0
    /\ builder = NoFlattenedGraph
    /\ frames = <<>>
    /\ rec_i = 0
    /\ recorded = <<>>
    /\ submitted = <<>>
    /\ calls = <<>>
    /\ entry_call = <<>>
    /\ prev_nodes = NoFrame
    /\ run_result = NoResult
    /\ failed = NoFailure
    /\ edges = {}
    /\ fresh = FALSE

\* graph.add_node(name, node)
AddSlotNode ==
    /\ pc = "nodes"
    /\ Cardinality(NodeIdsOf(graphs[TheGraph])) < MaxNodes
    /\ \E name \in NodeNames, node \in SlotNodes :
         LET id == Cardinality(NodeIdsOf(graphs[TheGraph])) + 1
         IN \E order \in Perms(NodeIdsOf(graphs[TheGraph]) \cup {id}) :
              /\ graphs' = [graphs EXCEPT ![TheGraph] = add_node(@, name, node, id, order)]
              /\ result' = [op |-> "add_node", before |-> 0, after |-> id, ret |-> "Ok"]
    /\ UNCHANGED <<cached_data, edges, fresh, run_vars, queue_vars, slot_vars>>

\* graph.update(world)
UpdateGraph ==
    /\ pc = "nodes"
    /\ graphs' = [graphs EXCEPT ![TheGraph] = update(@)]
    /\ result' = [op |-> "update", before |-> 0, after |-> 0, ret |-> "Ok"]
    /\ UNCHANGED <<cached_data, edges, fresh, run_vars, queue_vars, slot_vars>>

NodeNext == AddSlotNode \/ UpdateGraph

NodeSpec == NodeInit /\ [][NodeNext]_vars

(***************************************************************************)
(* bevy_render2, renderer/graph_runner.rs: RenderGraphRunner::run_graph.   *)
(* A node holds its edges as two hash sets; its system is a recording      *)
(* system or a system that returns the sub graphs to run, runs being the   *)
(* graph ids it asks for.  frames holds the active run_graph calls with    *)
(* their node_queue and finished_nodes, recorded the system runs and the   *)
(* finished_nodes inserts in the order they happen, calls the run_graph    *)
(* calls made.                                                             *)
(***************************************************************************)
Edges_default == [dependencies |-> {}, dependants |-> {}]

Edges_add_dependency(node_edges, node) ==
    [node_edges EXCEPT !.dependencies = @ \cup {node}]

Edges_add_dependant(node_edges, node) ==
    [node_edges EXCEPT !.dependants = @ \cup {node}]

RenderNode_new(id, system, runs) ==
    [id |-> id, system |-> system, runs |-> runs, edges |-> Edges_default]

\* the edge before -> after: after depends on before, before has after as dependant
add_node_edge(nodes, before_node, after_node) ==
    LET with_dependant ==
            [nodes EXCEPT ![before_node].edges = Edges_add_dependant(@, after_node)]
    IN [with_dependant EXCEPT ![after_node].edges = Edges_add_dependency(@, before_node)]

RECURSIVE add_node_edges(_, _)
add_node_edges(nodes, E) ==
    IF E = {} THEN nodes
    ELSE LET e == CHOOSE x \in E : TRUE
         IN add_node_edges(add_node_edge(nodes, e[1], e[2]), E \ {e})

iter_dependants(graph, node_id) == graph.nodes[node_id].edges.dependants

\* the nodes without dependencies, which run_graph queues first
without_dependencies(graph) ==
    {n \in DOMAIN graph.nodes : graph.nodes[n].edges.dependencies = {}}

EdgeChoices == {<<11, 12>>, <<11, 13>>, <<12, 13>>, <<13, 12>>}

SubEdgeChoices == {<<21, 22>>}

SystemChoices ==
    {[system |-> "RecordingSystem", runs |-> <<>>],
     [system |-> "RunSubGraphSystem", runs |-> <<2>>],
     [system |-> "RunSubGraphSystem", runs |-> <<2, 2>>],
     [system |-> "RunSubGraphSystem", runs |-> <<9>>]}

SubSystemChoices ==
    {[system |-> "RecordingSystem", runs |-> <<>>],
     [system |-> "RunSubGraphSystem", runs |-> <<2>>]}

Recording(id) == RenderNode_new(id, "RecordingSystem", <<>>)

MainGraph2(E, sys) ==
    [id |-> 1,
     nodes |-> add_node_edges([n \in {11, 12, 13} |->
                                 IF n = 12 THEN RenderNode_new(n, sys.system, sys.runs)
                                 ELSE Recording(n)], E)]

SubGraph2(E, sys) ==
    [id |-> 2,
     nodes |-> add_node_edges([n \in {21, 22} |->
                                 IF n = 21 THEN RenderNode_new(n, sys.system, sys.runs)
                                 ELSE Recording(n)], E)]

RunGraphInit ==
    /\ \E E \in SUBSET EdgeChoices, sys \in SystemChoices,
          F \in SUBSET SubEdgeChoices, sub \in SubSystemChoices :
         graphs = [g \in {1, 2} |-> IF g = 1 THEN MainGraph2(E, sys) ELSE SubGraph2(F, sub)]
    /\ main_graph = 1
    /\ pc = "run_and_submit"
    /\ frames = <<>>
    /\ recorded = <<>>
    /\ calls = <<>>
    /\ run_result = NoResult
    /\ submitted = <<>>
    /\ cached_data = CachedData_default
    /\ builder = NoFlattenedGraph
    /\ rec_i = 0
    /\ entry_call = <<>>
    /\ prev_nodes = NoFrame
    /\ failed = NoFailure
    /\ graph_names = NoNames
    /\ queue_graphs = <<>>
    /\ queue_result = NoQueueCall
    /\ schema = SlotRequirements_default
    /\ supplied = SlotValues_default
    /\ validation = NotValidated
    /\ inserted = NoSlots
    /\ got = NoGet
    /\ req_call = NoReqCall
    /\ edges = {}
    /\ result = NoCall
    /\ fresh = FALSE

flatten_vars == <<cached_data, main_graph, builder, rec_i, submitted, entry_call, prev_nodes,
                  failed>>

\* the node at the front of node_queue
FrontNode == Head(Top.node_queue)

\* a run_graph that runs the popped node without looking at its dependencies
Ready_unchecked ==
    /\ pc = "run_graph"
    /\ Top.node = 0
    /\ Top.node_queue # <<>>
    /\ FrontNode \notin Top.finished_nodes

\* run_graph: the popped node is not finished and none of its dependencies is unfinished
Ready ==
    /\ pc = "run_graph"
    /\ Top.node = 0
    /\ Top.node_queue # <<>>
    /\ FrontNode \notin Top.finished_nodes
    /\ graphs[Top.graph].nodes[FrontNode].edges.dependencies \subseteq Top.finished_nodes

Event(node_id, what) == [call |-> Top.call, node |-> node_id, event |-> what]

\* a finish that does not queue the dependants of the node
Finish_no_push(frame, node_id, order) ==
    [frame EXCEPT !.finished_nodes = @ \cup {node_id},
                  !.node = 0]

\* finished_nodes.insert(node) and the push of its dependants, in the set's hash order
Finish(frame, node_id, order) ==
    [frame EXCEPT !.finished_nodes = @ \cup {node_id},
                  !.node_queue = @ \o order,
                  !.node = 0]

\* run_graph is called, by run_and_submit or for a sub graph a node asked for:
\* MissingRenderGraph for an unknown id, else the nodes without dependencies
\* are queued in the order the nodes map iterates
CallRunGraph ==
    /\ \/ pc = "run_and_submit" /\ frames = <<>>
       \/ pc = "run_graph" /\ Top.node # 0 /\ Top.pending # <<>>
    /\ Len(frames) < MaxDepth
    /\ LET id == IF frames = <<>> THEN main_graph ELSE Head(Top.pending)
           callers == IF frames = <<>> THEN frames
                      ELSE [frames EXCEPT ![Len(frames)].pending = Tail(@)]
       IN IF id \notin DOMAIN graphs
          THEN /\ pc' = "returned"
               /\ run_result' = [NoResult EXCEPT !.ret = "MissingRenderGraph", !.graph = id]
               /\ UNCHANGED <<frames, calls>>
          ELSE /\ \E order \in Perms(without_dependencies(graphs[id])) :
                    frames' = Append(callers,
                                 [graph |-> id, node_queue |-> order, finished_nodes |-> {},
                                  node |-> 0, pending |-> <<>>, call |-> Len(calls) + 1])
               /\ calls' = Append(calls, [graph |-> id,
                                          parent |-> IF frames = <<>> THEN 0 ELSE Top.call])
               /\ pc' = "run_graph"
               /\ run_result' = run_result
    /\ UNCHANGED <<graphs, recorded, flatten_vars, build_vars, queue_vars, slot_vars>>

\* the popped node is in finished_nodes: continue
SkipFinished ==
    /\ pc = "run_graph"
    /\ Top.node = 0
    /\ Top.node_queue # <<>>
    /\ FrontNode \in Top.finished_nodes
    /\ frames' = [frames EXCEPT ![Len(frames)].node_queue = Tail(@)]
    /\ UNCHANGED <<graphs, pc, recorded, calls, run_result, flatten_vars, build_vars,
                   queue_vars, slot_vars>>

\* a dependency of the popped node has not finished: push_back and continue 'handle_node
Requeue ==
    /\ pc = "run_graph"
    /\ Top.node = 0
    /\ Top.node_queue # <<>>
    /\ FrontNode \notin Top.finished_nodes
    /\ ~(graphs[Top.graph].nodes[FrontNode].edges.dependencies \subseteq Top.finished_nodes)
    /\ frames' = [frames EXCEPT ![Len(frames)].node_queue = Append(Tail(@), FrontNode)]
    /\ UNCHANGED <<graphs, pc, recorded, calls, run_result, flatten_vars, build_vars,
                   queue_vars, slot_vars>>

\* the popped node's recording system runs; the node is finished
RunRecordingSystem ==
    /\ Ready
    /\ graphs[Top.graph].nodes[FrontNode].system = "RecordingSystem"
    /\ recorded' = recorded \o <<Event(FrontNode, "run"), Event(FrontNode, "finished")>>
    /\ \E order \in Perms(iter_dependants(graphs[Top.graph], FrontNode)) :
         frames' = [frames EXCEPT ![Len(frames)] =
                       Finish([@ EXCEPT !.node_queue = Tail(@)], FrontNode, order)]
    /\ UNCHANGED <<graphs, pc, calls, run_result, flatten_vars, build_vars, queue_vars,
                   slot_vars>>

\* the popped node's sub graph system runs and returns its RunSubGraphs
RunSubGraphSystem ==
    /\ Ready
    /\ graphs[Top.graph].nodes[FrontNode].system = "RunSubGraphSystem"
    /\ recorded' = Append(recorded, Event(FrontNode, "run"))
    /\ frames' = [frames EXCEPT ![Len(frames)].node_queue = Tail(@),
                                ![Len(frames)].node = FrontNode,
                                ![Len(frames)].pending =
                                     graphs[Top.graph].nodes[FrontNode].runs]
    /\ UNCHANGED <<graphs, pc, calls, run_result, flatten_vars, build_vars, queue_vars,
                   slot_vars>>

\* the popped node's system returns an error, which run_graph unwraps
SystemFails ==
    /\ Ready
    /\ pc' = "panicked"
    /\ UNCHANGED <<graphs, frames, recorded, calls, run_result, flatten_vars, build_vars,
                   queue_vars, slot_vars>>

\* every sub graph of the node has been run: the node is finished
FinishSubGraphs ==
    /\ pc = "run_graph"
    /\ Top.node # 0
    /\ Top.pending = <<>>
    /\ recorded' = Append(recorded, Event(Top.node, "finished"))
    /\ \E order \in Perms(iter_dependants(graphs[Top.graph], Top.node)) :
         frames' = [frames EXCEPT ![Len(frames)] = Finish(@, Top.node, order)]
    /\ UNCHANGED <<graphs, pc, calls, run_result, flatten_vars, build_vars, queue_vars,
                   slot_vars>>

\* node_queue is empty: run_graph returns Ok(command_encoder)
ReturnOk ==
    /\ pc = "run_graph"
    /\ Top.node = 0
    /\ Top.node_queue = <<>>
    /\ frames' = Front(frames)
    /\ pc' = IF Len(frames) = 1 THEN "returned" ELSE pc
    /\ run_result' = IF Len(frames) = 1 THEN [NoResult EXCEPT !.ret = "Ok"] ELSE run_result
    /\ UNCHANGED <<graphs, recorded, calls, flatten_vars, build_vars, queue_vars, slot_vars>>

RunGraphNext ==
    \/ CallRunGraph
    \/ SkipFinished
    \/ Requeue
    \/ RunRecordingSystem
    \/ RunSubGraphSystem
    \/ SystemFails
    \/ FinishSubGraphs
    \/ ReturnOk

RunGraphSpec == RunGraphInit /\ [][RunGraphNext]_vars

\* the loop of run_graph is sequential code: a step that can be taken is taken
FairRunGraphSpec == RunGraphSpec /\ WF_vars(RunGraphNext)

(***************************************************************************)
(* Graph relations used by the properties.                                 *)
(***************************************************************************)
Successors(E, S) == {e[2] : e \in {d \in E : d[1] \in S}}

RECURSIVE ReachFrom(_, _)
ReachFrom(E, S) ==
    LET next == S \cup Successors(E, S)
    IN IF next = S THEN S ELSE ReachFrom(E, next)

\* y is reached from x along one or more edges of E
Reaches(E, x, y) == y \in ReachFrom(E, Successors(E, {x}))

Acyclic(E) == \A e \in E : ~Reaches(E, e[1], e[1])

EdgesInGraph(graph, E) == \A e \in E : e[1] \in NodeIdsOf(graph) /\ e[2] \in NodeIdsOf(graph)

SortedNodes == cached_data.sorted_nodes[TheGraph]

C2_CycleRejected ==
    [][(result'.op = "add_edge" /\ Reaches(edges, result'.after, result'.before)) =>
         /\ result'.ret # "Ok"
         /\ graphs' = graphs
         /\ cached_data' = cached_data]_vars

(***************************************************************************)
(* The flattened list read against the invocations that produced it.       *)
(* calls[k] is the k-th graph invocation of the frame: its graph, the      *)
(* inputs it was entered with, the invocation and the queueing node that   *)
(* requested it.  entry_call[i] is the invocation that appended entry i.   *)
(***************************************************************************)
Flattened == pc \in {"record", "done"}

Aligned == Len(entry_call) = Len(builder.nodes)

Entries == [i \in 1..Len(builder.nodes) |-> [entry |-> builder.nodes[i], call |-> entry_call[i]]]

\* the node ids of the entries invocation k appended, in list order
NodesOfCall(k) ==
    LET own == SelectSeq(Entries, LAMBDA z : z.call = k)
    IN [i \in 1..Len(own) |-> own[i].entry.location.node_id]

\* the slot values entry i refers to
InputsOf(i) == builder.slot_values_set[builder.nodes[i].index + 1]

RECURSIVE Within(_, _)
\* invocation c is invocation k or was requested, directly or not, from inside it
Within(k, c) == c = k \/ (c > k /\ Within(k, calls[c].parent))

\* the invocations that node q of invocation p requested, in the order they were entered
Children(p, q) ==
    LET all == [k \in 1..Len(calls) |-> [k |-> k, call |-> calls[k]]]
        mine == SelectSeq(all, LAMBDA z : z.call.parent = p /\ z.call.by = q)
    IN [i \in 1..Len(mine) |-> mine[i].k]

QueueNodesOf(g) == {n \in NodeIdsOf(graphs[g]) : get_function(graphs[g].nodes[n]) = "Queue"}

RecordNodesOf(g) == {n \in NodeIdsOf(graphs[g]) : get_function(graphs[g].nodes[n]) = "Record"}

Triple(i) ==
    [graph_id |-> builder.nodes[i].location.graph_id,
     node_id |-> builder.nodes[i].location.node_id,
     inputs |-> InputsOf(i)]

Triples == [i \in 1..Len(builder.nodes) |-> Triple(i)]

Count(s, x) == Cardinality({i \in 1..Len(s) : s[i] = x})

(***************************************************************************)
(* C3: in the flattened list every entry of an invocation that queueing    *)
(* node q requested, and of anything requested from inside it, comes after *)
(* the entries of the nodes ahead of q in q's graph's topological order    *)
(* and before the entries of the nodes behind q.                           *)
(***************************************************************************)
C3_InlinedAtQueueingNode ==
    Flattened =>
        /\ Aligned
        /\ \A k \in 1..Len(calls) : calls[k].parent # 0 =>
             LET p == calls[k].parent
                 q == calls[k].by
                 order == cached_data.sorted_nodes[calls[p].graph]
             IN \A i, j \in 1..Len(builder.nodes) :
                  (Within(k, entry_call[i]) /\ entry_call[j] = p) =>
                     LET n == builder.nodes[j].location.node_id
                     IN /\ Before(order, n, q) => j < i
                        /\ Before(order, q, n) => i < j

\* a queueing node with nodes on both sides of it requested a graph that left entries
C3_Witness ==
    /\ pc = "done"
    /\ Aligned
    /\ \E k \in 1..Len(calls), i, j, l \in 1..Len(builder.nodes) :
         /\ calls[k].parent # 0
         /\ entry_call[i] = k
         /\ entry_call[j] = calls[k].parent
         /\ entry_call[l] = calls[k].parent
         /\ j < i
         /\ i < l
         /\ builder.nodes[l].location.node_id # calls[k].by

(***************************************************************************)
(* The scenario of C4: the root graph B (graph 2) holds the one queueing   *)
(* node q1 (node 21), which requires nothing and queues graph A (graph 3,  *)
(* the one recording node r1, node 31, requiring x) with {x: 7}.           *)
(***************************************************************************)
QueueScenario ==
    /\ main_graph = 2
    /\ graphs[2].nodes[21].node = QueueNode(SlotRequirements_default, <<Request(3, 7)>>)

q1_entry == [graph_id |-> 2, node_id |-> 21, inputs |-> SlotValues_default]

r1_entry == [graph_id |-> 3, node_id |-> 31, inputs |-> X(7)]

(***************************************************************************)
(* C4, as the claim states it: in the scenario the flattened list is       *)
(* (B, q1, no inputs) followed by (A, r1, {x: 7}), and the run calls       *)
(* r1.record with {x: 7} exactly once.                                     *)
(***************************************************************************)
C4_QueueingEntryFirst ==
    (QueueScenario /\ pc = "done") =>
        /\ Triples = <<q1_entry, r1_entry>>
        /\ recorded = <<r1_entry>>

(***************************************************************************)
(* C4, amended: in the scenario the flattened list is (A, r1, {x: 7})      *)
(* followed by (B, q1, no inputs), the queueing node's own entry coming    *)
(* after the entries of the graph it queued, and the run calls r1.record   *)
(* with {x: 7} exactly once.                                               *)
(***************************************************************************)
C4_QueueingEntryLast ==
    (QueueScenario /\ pc = "done") =>
        /\ Triples = <<r1_entry, q1_entry>>
        /\ recorded = <<r1_entry>>

\* the scenario ran to the end of a frame
C4_Witness == QueueScenario /\ pc = "done" /\ submitted # <<>> /\ Len(builder.nodes) = 2

(***************************************************************************)
(* C5: every entry of the flattened list refers to the slot values of the  *)
(* invocation that appended it, also when that invocation went on after a  *)
(* graph it queued had returned, and every record call is handed exactly   *)
(* the slot values of its entry's invocation.                              *)
(***************************************************************************)
C5_EntryRefersToOwnInvocation ==
    Flattened =>
        /\ Aligned
        /\ \A i \in 1..Len(builder.nodes) :
             /\ builder.nodes[i].index + 1 = entry_call[i]
             /\ InputsOf(i) = calls[entry_call[i]].args
        /\ pc = "done" =>
             LET rec == SelectSeq(Entries, LAMBDA z :
                          z.entry.location.node_id \in RecordNodesOf(z.entry.location.graph_id))
             IN recorded = [i \in 1..Len(rec) |->
                              [graph_id |-> rec[i].entry.location.graph_id,
                               node_id |-> rec[i].entry.location.node_id,
                               inputs |-> calls[rec[i].call].args]]

\* a recording node of an outer graph was visited after a queued graph with other inputs returned
C5_Witness ==
    /\ pc = "done"
    /\ Aligned
    /\ \E i, j \in 1..Len(builder.nodes) :
         /\ i < j
         /\ calls[entry_call[i]].parent = entry_call[j]
         /\ calls[entry_call[i]].args # calls[entry_call[j]].args
         /\ builder.nodes[j].location.node_id \in RecordNodesOf(builder.nodes[j].location.graph_id)
         /\ \E r \in 1..Len(recorded) : recorded[r].node_id = builder.nodes[j].location.node_id

(***************************************************************************)
(* C6: when one invocation of a queueing node queues the same graph twice  *)
(* with different inputs, every node of that graph has an entry for each   *)
(* of the two requests, referring to that request's inputs, and every      *)
(* recording node of it is recorded with given inputs as many times as it  *)
(* has entries with those inputs.                                          *)
(***************************************************************************)
C6_QueuedTwice ==
    pc = "done" =>
        /\ Aligned
        /\ \A p \in 1..Len(calls) : \A q \in QueueNodesOf(calls[p].graph) :
             LET reqs == graphs[calls[p].graph].nodes[q].node.calls
             IN \A a, b \in 1..Len(reqs) :
                  (a < b /\ reqs[a].id = reqs[b].id /\ reqs[a].inputs # reqs[b].inputs) =>
                     \A n \in NodeIdsOf(graphs[reqs[a].id]) : \A v \in {reqs[a].inputs, reqs[b].inputs} :
                        /\ \E i \in 1..Len(builder.nodes) :
                             /\ Triple(i) = [graph_id |-> reqs[a].id, node_id |-> n, inputs |-> v]
                             /\ calls[entry_call[i]].parent = p
                             /\ calls[entry_call[i]].by = q
                        /\ n \in RecordNodesOf(reqs[a].id) =>
                             Count(recorded, [graph_id |-> reqs[a].id, node_id |-> n, inputs |-> v])
                               = Count(Triples, [graph_id |-> reqs[a].id, node_id |-> n, inputs |-> v])

\* a frame ended in which a queueing node queued one graph with {x: 7} and with {x: 8}
C6_Witness ==
    /\ pc = "done"
    /\ \E k, l \in 1..Len(calls) :
         /\ k < l
         /\ calls[k].parent # 0
         /\ calls[k].parent = calls[l].parent
         /\ calls[k].by = calls[l].by
         /\ calls[k].graph = calls[l].graph
         /\ calls[k].args # calls[l].args
    /\ \E r \in 1..Len(recorded) : recorded[r].inputs = X(8)

(***************************************************************************)
(* C7: two nodes that have no predecessors at all are both ready when the  *)
(* sort starts; the order lists the one created first ahead of the other.  *)
(***************************************************************************)
C7_CreationOrderTieBreak ==
    fresh =>
        \A x, y \in NodeIdsOf(graphs[TheGraph]) :
            (/\ x < y
             /\ before(graphs[TheGraph], x) = <<>>
             /\ before(graphs[TheGraph], y) = <<>>) => Before(SortedNodes, x, y)

C9_OneEntryPerNode ==
    Flattened =>
        /\ Aligned
        /\ \A k \in 1..Len(calls) :
             LET order == cached_data.sorted_nodes[calls[k].graph]
             IN /\ NodesOfCall(k) = order
                /\ Range(order) = NodeIdsOf(graphs[calls[k].graph])
                /\ Len(order) = Cardinality(NodeIdsOf(graphs[calls[k].graph]))
                /\ \A i \in 1..Len(builder.nodes) :
                     entry_call[i] = k => builder.nodes[i].location.graph_id = calls[k].graph

\* a flattening went through a recording, a queueing and an empty node and a queued graph
C9_Witness ==
    /\ pc = "done"
    /\ Len(calls) > 1
    /\ \A kind \in {"Record", "Queue", "Empty"} :
         \E i \in 1..Len(builder.nodes) :
            get_function(get_node(graphs[builder.nodes[i].location.graph_id],
                                  builder.nodes[i].location.node_id)) = kind

(***************************************************************************)
(* C10: the graphs one invocation of a queueing node requested are         *)
(* flattened in the order of the requests, each request exactly once, and  *)
(* nothing else is: no request of another invocation is carried over.      *)
(***************************************************************************)
C10_RequestsInQueueOrder ==
    Flattened =>
        /\ Aligned
        /\ \A p \in 1..Len(calls) : \A q \in QueueNodesOf(calls[p].graph) :
             LET kids == Children(p, q)
             IN /\ [i \in 1..Len(kids) |-> [id |-> calls[kids[i]].graph,
                                            inputs |-> calls[kids[i]].args]]
                     = graphs[calls[p].graph].nodes[q].node.calls
                /\ \A a, b \in 1..Len(kids) : a < b =>
                     \A i, j \in 1..Len(builder.nodes) :
                        (Within(kids[a], entry_call[i]) /\ Within(kids[b], entry_call[j]))
                           => i < j

\* one queueing node made two different requests and another one ran twice in the frame
C10_Witness ==
    /\ pc = "done"
    /\ \E p \in 1..Len(calls) : \E q \in QueueNodesOf(calls[p].graph) :
         LET kids == Children(p, q)
         IN Len(kids) = 2 /\ calls[kids[1]].args # calls[kids[2]].args
    /\ \E p, r \in 1..Len(calls) : \E q \in QueueNodesOf(calls[p].graph) :
         /\ p # r
         /\ calls[r].graph = calls[p].graph
         /\ Children(p, q) # <<>>
         /\ Children(r, q) # <<>>

\* the record calls due for the recording entries among the first n flattened entries
ExpectedRecords(n) ==
    SelectSeq(SubSeq(Triples, 1, n), LAMBDA t : t.node_id \in RecordNodesOf(t.graph_id))

(***************************************************************************)
(* C11: while no record call has failed, the record calls made so far are  *)
(* exactly those of the recording entries the loop has passed, in list     *)
(* order, none for a queueing or empty entry; the commands are submitted   *)
(* once, and only when the loop has passed the last entry.                 *)
(***************************************************************************)
C11_RecordInOrderThenSubmit ==
    /\ pc = "record" => (recorded = ExpectedRecords(rec_i - 1) /\ submitted = <<>>)
    /\ pc = "done" => (/\ recorded = ExpectedRecords(Len(builder.nodes))
                       /\ submitted = <<recorded>>
                       /\ run_result.ret = "Ok")
    /\ submitted # <<>> => pc = "done"

\* a frame ended whose list held recording, queueing and empty entries
C11_Witness ==
    /\ pc = "done"
    /\ Len(recorded) >= 2
    /\ Len(submitted) = 1
    /\ \A kind \in {"Queue", "Empty"} :
         \E i \in 1..Len(builder.nodes) :
            get_function(get_node(graphs[builder.nodes[i].location.graph_id],
                                  builder.nodes[i].location.node_id)) = kind

(***************************************************************************)
(* C12: once a record call has returned an error, run has returned an      *)
(* error, the loop stands at the failing entry, no entry behind it has     *)
(* been recorded and nothing has been submitted.                           *)
(***************************************************************************)
C12_FailFast ==
    failed.entry # 0 =>
        /\ run_result.ret = "Err"
        /\ rec_i = failed.entry
        /\ recorded = ExpectedRecords(failed.entry - 1)
        /\ submitted = <<>>

\* a record call failed with a recording entry still behind it in the list
C12_Witness ==
    /\ pc = "failed"
    /\ failed.entry # 0
    /\ ExpectedRecords(Len(builder.nodes)) # ExpectedRecords(failed.entry)
    /\ recorded # <<>>

(***************************************************************************)
(* C13: the error run returns for a failed record names the graph of the   *)
(* failing entry, which is the queued graph when the entry came in through *)
(* a queue request, names the failing node and carries the node's error.   *)
(***************************************************************************)
C13_ErrorProvenance ==
    failed.entry # 0 =>
        LET location == builder.nodes[failed.entry].location
        IN run_result = [ret |-> "Err",
                         graph |-> get_label(graphs[location.graph_id]),
                         node |-> node_label(get_node(graphs[location.graph_id],
                                                      location.node_id)),
                         node_error |-> failed.error]

\* the record call of a node of a queued graph failed
C13_Witness ==
    /\ pc = "failed"
    /\ failed.entry # 0
    /\ builder.nodes[failed.entry].location.graph_id # main_graph
    /\ calls[entry_call[failed.entry]].parent # 0

\* every node's cached requirements are what the node declares, and the graph's aggregate
\* declares exactly the names its nodes declare, each with a type one of them declares
Refreshed(graph) ==
    /\ \A n \in NodeIdsOf(graph) :
         graph.nodes[n].required_slots = slot_requirements(graph.nodes[n].node)
    /\ DOMAIN graph.slot_requirements.values =
         UNION {DOMAIN slot_requirements(graph.nodes[n].node).values : n \in NodeIdsOf(graph)}
    /\ \A name \in DOMAIN graph.slot_requirements.values :
         \E n \in NodeIdsOf(graph) :
            /\ name \in DOMAIN slot_requirements(graph.nodes[n].node).values
            /\ slot_requirements(graph.nodes[n].node).values[name]
                 = graph.slot_requirements.values[name]

Resolves(label) ==
    \/ label[1] = "Id" /\ label[2] \in DOMAIN graphs
    \/ label[1] = "Name" /\ label[2] \in DOMAIN graph_names
                         /\ graph_names[label[2]] \in DOMAIN graphs

Queued == queue_result.op = "queue"

(***************************************************************************)
(* C15: a queue call whose label, a name or an id, resolves to no          *)
(* registered graph returns the missing-graph error and leaves the request *)
(* list as it found it.                                                    *)
(***************************************************************************)
C15_MissingGraph ==
    (Queued /\ ~Resolves(queue_result.label)) =>
        /\ queue_result.ret = "MissingGraph"
        /\ queue_graphs = queue_result.before

\* a queue call with an id that no graph has came after a successful one
C15_Witness ==
    /\ Queued
    /\ queue_result.label = IdLabel(9)
    /\ queue_result.ret = "MissingGraph"
    /\ queue_result.before # <<>>

(***************************************************************************)
(* C16: a queue call that returns an error leaves the request list exactly *)
(* as it found it: nothing appended, the earlier requests kept in order.   *)
(***************************************************************************)
C16_FailedQueueAppendsNothing ==
    (Queued /\ queue_result.ret # "Ok") => queue_graphs = queue_result.before

\* a queue call with a value of the wrong type failed after a successful one
C16_Witness ==
    /\ Queued
    /\ queue_result.ret = "MismatchedSlotType"
    /\ queue_result.before # <<>>
    /\ queue_graphs # <<>>

(***************************************************************************)
(* C17: a queue call for a registered graph whose values leave out a slot  *)
(* that the graph's aggregate requirements declare without a default       *)
(* returns the missing-input error and appends no request.                 *)
(***************************************************************************)
C17_MissingInputRejected ==
    (/\ Queued
     /\ Resolves(queue_result.label)
     /\ LET requirements ==
                graphs[get_graph(graphs, graph_names, queue_result.label).id].slot_requirements
        IN \E n \in DOMAIN requirements.values \ requirements.defaults :
              n \notin DOMAIN queue_result.inputs)
        => /\ queue_result.ret = "MissingInput"
           /\ queue_graphs = queue_result.before

\* what the validated values are like, read off the schema
UnknownProvided == DOMAIN supplied \ DOMAIN schema.values

MismatchedProvided ==
    {n \in DOMAIN supplied \cap DOMAIN schema.values : schema.values[n] # supplied[n].type_id}

MissingRequired == (DOMAIN schema.values \ schema.defaults) \ DOMAIN supplied

(***************************************************************************)
(* C18: what validation returns follows a fixed precedence: the            *)
(* unknown-name error when any provided name is unknown, else the          *)
(* type-mismatch error when any provided value has the wrong type, else    *)
(* the missing-input error when a required name without default is absent. *)
(***************************************************************************)
C18_ErrorPrecedence ==
    (validation.done /\ validation.error # "panic") =>
        /\ UnknownProvided # {} => validation.error = "SlotDoesntExist"
        /\ (UnknownProvided = {} /\ MismatchedProvided # {})
              => validation.error = "SlotProvidedTypeError"
        /\ (UnknownProvided = {} /\ MismatchedProvided = {} /\ MissingRequired # {})
              => validation.error = "SlotNotProvided"

(***************************************************************************)
(* C19: when every provided value is valid and a required name without a   *)
(* default is absent, validation returns the missing-input error for an    *)
(* absent required name.                                                   *)
(***************************************************************************)
C19_MissingInputSurfaces ==
    (/\ validation.done
     /\ UnknownProvided = {}
     /\ MismatchedProvided = {}
     /\ MissingRequired # {})
        => /\ validation.error = "SlotNotProvided"
           /\ validation.name \in MissingRequired

\* a required name was absent while another, valid value was provided
C19_Witness ==
    /\ validation.done
    /\ validation.error = "SlotNotProvided"
    /\ supplied # SlotValues_default
    /\ schema.defaults # {}

(***************************************************************************)
(* C20, as the claim states it: values pass validation exactly when every  *)
(* required name is present with the matching type, or has a default and   *)
(* is left out.                                                            *)
(***************************************************************************)
C20_PassesIffRequiredPresent ==
    validation.done =>
        (validation.error = "None" <=>
            \A n \in DOMAIN schema.values :
                \/ n \in DOMAIN supplied /\ supplied[n].type_id = schema.values[n]
                \/ n \in schema.defaults /\ n \notin DOMAIN supplied)

(***************************************************************************)
(* C20, amended: values pass validation exactly when every provided name   *)
(* is a declared one, and every required name is present with the matching *)
(* type, or has a default and is left out.                                 *)
(***************************************************************************)
C20_PassesIffDeclaredAndRequiredPresent ==
    validation.done =>
        (validation.error = "None" <=>
            /\ DOMAIN supplied \subseteq DOMAIN schema.values
            /\ \A n \in DOMAIN schema.values :
                  \/ n \in DOMAIN supplied /\ supplied[n].type_id = schema.values[n]
                  \/ n \in schema.defaults /\ n \notin DOMAIN supplied)

\* values passed that give one required name and leave out one that has a default
C20_Witness ==
    /\ validation.done
    /\ validation.error = "None"
    /\ supplied # SlotValues_default
    /\ schema.defaults \ DOMAIN supplied # {}

\* C21: a validation of values that supply a declared slot with another type
\* than the declared one (and supply no undeclared slot) ends in a
\* SlotProvidedTypeError for such a slot that carries the declared type as
\* actual and the supplied type as provided
C21_MismatchCarriesBothTypes ==
    (validation.done /\ MismatchedProvided # {} /\ UnknownProvided = {}) =>
        /\ validation.error = "SlotProvidedTypeError"
        /\ validation.name \in MismatchedProvided
        /\ validation.actual = schema.values[validation.name]
        /\ validation.provided = supplied[validation.name].type_id

\* C22: a get::<T>(name) made when the latest with for the name was a
\* with::<T>(name, v) returns Ok with that v
C22_GetReturnsLatestWith ==
    (/\ got.op = "get"
     /\ got.slot_name \in DOMAIN inserted
     /\ inserted[got.slot_name].type = got.type)
        => /\ got.ret = "Ok"
           /\ got.value = inserted[got.slot_name].value

\* a get that returns the value 8 that the latest with stored under the name
C22_Witness ==
    /\ got.op = "get"
    /\ got.ret = "Ok"
    /\ got.slot_name \in DOMAIN inserted
    /\ got.value = inserted[got.slot_name].value
    /\ got.value = 8

\* C23: a get::<T>(name) of a name never inserted returns SlotNameError; of
\* a name whose latest with was of another type it returns SlotTypeError with
\* T as expected type and the stored type as actual type; it returns nothing
\* but these two errors or Ok, and Ok only when the stored type is T
C23_GetErrors ==
    got.op = "get" =>
        /\ got.ret \in {"Ok", "SlotNameError", "SlotTypeError"}
        /\ got.slot_name \notin DOMAIN inserted <=> got.ret = "SlotNameError"
        /\ (got.slot_name \in DOMAIN inserted /\ inserted[got.slot_name].type # got.type)
              <=> got.ret = "SlotTypeError"
        /\ got.ret = "SlotTypeError" =>
              /\ got.expected_type = got.type
              /\ got.actual_type = inserted[got.slot_name].type

\* a get with another type than the stored one, answered with SlotTypeError
C23_Witness ==
    /\ got.op = "get"
    /\ got.ret = "SlotTypeError"
    /\ got.type = "Entity"
    /\ got.actual_type = "Buffer"

\* C24: an add_edge(a, b) made when an earlier add_edge(a, b) returned Ok
\* returns EdgeAlreadyExists and leaves the graph as it was
C24_DuplicateEdgeRejected ==
    [][(result'.op = "add_edge" /\ <<result'.before, result'.after>> \in edges) =>
         /\ result'.ret = "EdgeAlreadyExists"
         /\ graphs' = graphs]_vars

\* C25: when every add_edge that returned Ok joined two nodes of the graph,
\* a is among the dependencies of b exactly when b is among the dependants
\* of a, and exactly when add_edge(a, b) returned Ok
C25_EdgesMirrored ==
    LET graph == graphs[TheGraph]
    IN EdgesInGraph(graph, edges) =>
         \A a \in DOMAIN graph.nodes, b \in DOMAIN graph.nodes :
            /\ Contains(graph.nodes[b].dependencies, a)
                  <=> Contains(graph.nodes[a].dependants, b)
            /\ Contains(graph.nodes[b].dependencies, a) <=> <<a, b>> \in edges

\* C26: an add_edge with an endpoint label that resolves to no node of the
\* graph returns InvalidNode and leaves the graph as it was
C26_UnknownEndpointRejected ==
    [][(/\ result'.op = "add_edge"
        /\ \/ result'.before \notin DOMAIN graphs[TheGraph].nodes
           \/ result'.after \notin DOMAIN graphs[TheGraph].nodes) =>
         /\ result'.ret = "InvalidNode"
         /\ graphs' = graphs]_vars

\* a slot name that both requirements declare, with different types
Incompatible(req, contract) ==
    \E n \in DOMAIN req.values \cap DOMAIN contract.values :
       req.values[n] # contract.values[n]

\* C27: an add_node of a node whose requirements share a slot name of another
\* type with the graph's aggregate requirements returns SlotRequirementError
\* and leaves the graph as it was
C27_IncompatibleNodeRejected ==
    [][(/\ result'.op = "add_node"
        /\ Incompatible(slot_requirements(graphs'[TheGraph].nodes[result'.after].node),
                        graphs[TheGraph].slot_requirements)) =>
         /\ result'.ret = "SlotRequirementError"
         /\ graphs' = graphs]_vars

\* C28: every name of the name index belongs to exactly one node of the
\* node set, the one the index points at, and every node of the node set is
\* the node of its name
C28_OneNodePerName ==
    LET graph == graphs[TheGraph]
    IN /\ \A name \in DOMAIN graph.node_names :
            {n \in DOMAIN graph.nodes : graph.nodes[n].name = name}
               = {graph.node_names[name]}
       /\ \A n \in DOMAIN graph.nodes :
            /\ graph.nodes[n].name \in DOMAIN graph.node_names
            /\ graph.node_names[graph.nodes[n].name] = n

GraphShape(graph) ==
    [nodes |-> DOMAIN graph.nodes,
     node_names |-> graph.node_names,
     edges |-> [n \in DOMAIN graph.nodes |->
                  <<graph.nodes[n].dependencies, graph.nodes[n].dependants>>],
     slot_requirements |-> graph.slot_requirements]

\* C30: no step of run(), from its start to its return, changes the node
\* set, the names, the edges or the aggregate requirements of any graph, nor
\* the graph name index
C30_RunLeavesGraphsAlone ==
    [][(pc \in {"updated", "flatten", "record"}) =>
         /\ [g \in DOMAIN graphs' |-> GraphShape(graphs'[g])]
              = [g \in DOMAIN graphs |-> GraphShape(graphs[g])]
         /\ graph_names' = graph_names]_vars

\* a run() that has returned after recording and submitting, over graphs
\* that have an edge and aggregate requirements, with the orders rebuilt
C30_Witness ==
    /\ pc = "done"
    /\ recorded # <<>>
    /\ submitted # <<>>
    /\ DOMAIN cached_data.sorted_nodes = DOMAIN graphs
    /\ \E g \in DOMAIN graphs :
         \E n \in DOMAIN graphs[g].nodes : graphs[g].nodes[n].dependencies # <<>>
    /\ \E g \in DOMAIN graphs : graphs[g].slot_requirements # SlotRequirements_default

\* the flattening is at a queueing node whose queue call returns an error
QueueCallFails ==
    /\ AtNode("Queue")
    /\ ~node_queue(TopNode, current_slot_values(builder), QueueContext_new, graphs).ok

\* C31: when a queueing node's queue call returns an error, the frame ends
\* there: the flattened list stays as it was, nothing has been or is
\* recorded or submitted, and no further step of the frame is taken
C31_QueueErrorAbortsFrame ==
    [][/\ pc # "panicked"
       /\ QueueCallFails =>
            /\ pc' = "panicked"
            /\ builder' = builder
            /\ recorded = <<>> /\ recorded' = <<>>
            /\ submitted = <<>> /\ submitted' = <<>>]_vars

\* a frame that ended at a failing queue call after entries had been flattened
C31_Witness ==
    /\ pc = "panicked"
    /\ builder.nodes # <<>>
    /\ recorded = <<>>
    /\ submitted = <<>>

\* the dependencies of the node of a recorded event, in the graph of its run_graph call
DependenciesOf(ev) == graphs[calls[ev.call].graph].nodes[ev.node].edges.dependencies

\* C32: whenever a node's system has run in a run_graph call, every one of
\* its dependencies was finished earlier in that same call, and the system
\* has run once only in that call
C32_RunAfterDependenciesOnce ==
    \A i \in 1..Len(recorded) :
        recorded[i].event = "run" =>
            /\ \A d \in DependenciesOf(recorded[i]) :
                  \E j \in 1..(i - 1) :
                     recorded[j] = [call |-> recorded[i].call, node |-> d,
                                    event |-> "finished"]
            /\ \A j \in 1..Len(recorded) : recorded[j] = recorded[i] => j = i

\* a finished run of the graph 11 -> 12, 11 -> 13, 12 -> 13, where 13 is
\* pushed by 11 and by 12 and waits for 12 when it is popped first
C32_Witness ==
    /\ pc = "returned"
    /\ run_result.ret = "Ok"
    /\ graphs[1].nodes[13].edges.dependencies = {11, 12}
    /\ graphs[1].nodes[11].edges.dependants = {12, 13}
    /\ \E i \in 1..Len(recorded) :
         recorded[i] = [call |-> 1, node |-> 13, event |-> "run"]

\* the pairs (d, n) where d is a dependency of n
DependencyEdges(graph) ==
    {e \in (DOMAIN graph.nodes) \X (DOMAIN graph.nodes) :
        e[1] \in graph.nodes[e[2]].edges.dependencies}

\* graph g has a node that asks for graph h
RunsEdges ==
    {e \in (DOMAIN graphs) \X (DOMAIN graphs \cup {9}) :
        \E n \in DOMAIN graphs[e[1]].nodes :
           \E i \in 1..Len(graphs[e[1]].nodes[n].runs) : graphs[e[1]].nodes[n].runs[i] = e[2]}

\* every graph's dependency edges are acyclic and no graph leads back to itself
AcyclicRegistry ==
    /\ \A g \in DOMAIN graphs : Acyclic(DependencyEdges(graphs[g]))
    /\ Acyclic(RunsEdges)

RunGraphEnded == pc \in {"returned", "panicked"}

\* every node of the main graph has run exactly once in the outermost run_graph call
AllRanOnce ==
    \A n \in DOMAIN graphs[main_graph].nodes :
       Cardinality({i \in 1..Len(recorded) :
                      recorded[i] = [call |-> 1, node |-> n, event |-> "run"]}) = 1

C34_SortIsPermutation ==
    result.op = "sort" =>
        /\ result.ret = "Ok"
        /\ Len(SortedNodes) = Cardinality(NodeIdsOf(graphs[TheGraph]))
        /\ \A n \in NodeIdsOf(graphs[TheGraph]) : Count(SortedNodes, n) = 1

\* graph g has a queueing node that queues graph h
QueuesEdges ==
    {e \in (DOMAIN graphs) \X (DOMAIN graphs) :
        \E n \in DOMAIN graphs[e[1]].nodes :
           \E i \in 1..Len(graphs[e[1]].nodes[n].node.calls) :
              graphs[e[1]].nodes[n].node.calls[i].id = e[2]}

\* C35 as stated: over a registry in which no graph directly or transitively
\* queues itself, every flattening ends with the flattened list built
C35_FlatteningBuildsList ==
    (Acyclic(QueuesEdges) /\ pc = "flatten") ~> (pc = "record")

\* C35: over a registry in which no graph directly or transitively queues
\* itself, every flattening ends: with the flattened list built, or at a
\* queueing node whose queue call returned an error
C35_FlatteningEnds ==
    (Acyclic(QueuesEdges) /\ pc = "flatten") ~> (pc \in {"record", "panicked"})

\* a flattening that has ended with a list that holds entries of three
\* nested graph invocations
C35_Witness ==
    /\ Acyclic(QueuesEdges)
    /\ pc = "record"
    /\ Len(calls) >= 3
    /\ \E c \in 1..Len(calls) : calls[c].parent # 0 /\ calls[calls[c].parent].parent # 0
    /\ Len(builder.nodes) >= 5

\* C36: from the start of a flattening on, graph_stack and position have
\* equal length, which during the flattening is the number of visit_graph
\* calls that have not returned and after it is zero; every index in the
\* node list and on the position stack points into slot_values_set; and
\* slot_values_set holds the inputs of the visit_graph calls in call order,
\* the root's empty inputs first
C36_BuilderStacks ==
    (pc \in {"flatten", "panicked", "record", "done", "failed"}) =>
        /\ Len(builder.graph_stack) = Len(builder.position)
        /\ pc \in {"flatten", "panicked"} => Len(builder.graph_stack) = Len(frames)
        /\ pc \in {"record", "done", "failed"} => builder.graph_stack = <<>>
        /\ \A i \in 1..Len(builder.nodes) :
              builder.nodes[i].index \in 0..(Len(builder.slot_values_set) - 1)
        /\ \A i \in 1..Len(builder.position) :
              builder.position[i] \in 0..(Len(builder.slot_values_set) - 1)
        /\ Len(builder.slot_values_set) = Len(calls)
        /\ \A c \in 1..Len(calls) :
              c <= Len(builder.slot_values_set) => builder.slot_values_set[c] = calls[c].args
        /\ builder.slot_values_set[1] = SlotValues_default

\* a flattening three visit_graph calls deep, after a queued graph was
\* entered and left again
C36_Witness ==
    /\ pc = "flatten"
    /\ Len(frames) = 3
    /\ Len(builder.position) = 3
    /\ Len(builder.slot_values_set) > 3
    /\ builder.nodes # <<>>

\* C37: get_slot_requirement_error returns SlotRequirementDoesntExist for a
\* name of the node's set that the graph's set lacks, SlotRequirementTypeError
\* naming both types for a name the two sets declare with different types,
\* None when neither case exists, and never fails on a type-name lookup
C37_RequirementErrorNeverPanics ==
    req_call.op = "get_slot_requirement_error" =>
        LET node == req_call.before
            graph == req_call.other
            absent == DOMAIN node.values \ DOMAIN graph.values
            clash == {n \in DOMAIN node.values \cap DOMAIN graph.values :
                        node.values[n] # graph.values[n]}
        IN /\ req_call.ret # "panic"
           /\ req_call.ret = "None" <=> absent \cup clash = {}
           /\ req_call.ret = "SlotRequirementDoesntExist" => req_call.name \in absent
           /\ req_call.ret = "SlotRequirementTypeError" =>
                 /\ req_call.name \in clash
                 /\ {req_call.actual, req_call.provided}
                      = {node.values[req_call.name], graph.values[req_call.name]}

\* C38: after any sequence of with, set_default and merge, every type id
\* stored for a slot name has a type name on record, and neither set_default
\* nor merge fails on the lookup of a type name
C38_StoredTypesHaveNames ==
    /\ \A n \in DOMAIN schema.values : schema.values[n] \in schema.type_names
    /\ req_call.op \in {"set_default", "merge"} => req_call.ret # "panic"

\* C39: a merge that returns SlotConflict leaves the receiver as it was, and
\* a merge that returns Ok leaves it declaring the names of both sets, each
\* with the type it had
C39_MergeAllOrNothing ==
    req_call.op = "merge" =>
        /\ req_call.ret = "SlotConflict" => schema = req_call.before
        /\ req_call.ret = "Ok" =>
              /\ DOMAIN schema.values
                   = DOMAIN req_call.before.values \cup DOMAIN req_call.other.values
              /\ \A n \in DOMAIN req_call.before.values :
                    schema.values[n] = req_call.before.values[n]
              /\ \A n \in DOMAIN req_call.other.values :
                    schema.values[n] = req_call.other.values[n]

\* C40: set_default::<T> on a name declared with a type other than T returns
\* SlotTypeError and leaves declared types and defaults as they were, and no
\* set_default changes the declared type of a name that was declared
C40_DefaultKeepsDeclaredType ==
    req_call.op = "set_default" =>
        /\ \A n \in DOMAIN req_call.before.values :
              n \in DOMAIN schema.values /\ schema.values[n] = req_call.before.values[n]
        /\ ( /\ req_call.name \in DOMAIN req_call.before.values
             /\ req_call.before.values[req_call.name] # req_call.provided )
           => /\ req_call.ret = "SlotTypeError"
              /\ schema.values = req_call.before.values
              /\ schema.defaults = req_call.before.defaults

====
